---- MODULE Spec2Model ----
(***************************************************************************)
(* The optimistic store of the Solar Oasis project tracker: the            *)
(* AppProvider component (src/src/types.ts, lines 425-758) that owns five  *)
(* in-memory collections, applies every save and delete locally before the *)
(* remote call resolves, reconciles with the server's answer on success    *)
(* and rolls back on failure.                                              *)
(*                                                                         *)
(* Every async operation is three actions: the synchronous prefix up to    *)
(* the await (named as the function), the continuation after a resolved    *)
(* promise (suffix Ok) and the catch block (suffix Fail).  The closure of  *)
(* a suspended call (its locals) is a record in `pending`.                 *)
(***************************************************************************)
EXTENDS Integers, Sequences, FiniteSets, TLC

\* ------------------------------------------------------------------ bounds
\* Number of store operations invoked in one behaviour.
MaxOps == 2

\* --------------------------------------------------------------- constants
\* `null` of an identifier (string | null); every real id is positive.
NoId == 0
\* `null` of userId (useState<string | null>(null)).
NoUser == "null"
\* The identifier getOrCreateUserId() returns.
TheUser == "u1"
\* The boxes of a milestone tracker that are toggled (DEFAULT_MILESTONES has
\* seven), and the longest burst of toggles on one timer.
MaxBoxes == 2
MaxEdits == 2
\* Abstract values of the editable content of an entity ("" is the default).
Vals == {"b"}

VARIABLES
    userId,             \* useState<string | null>
    isLoading,          \* useState(true)
    projects,           \* useState<Project[]>
    transactions,       \* useState<Transaction[]>
    todos,              \* useState<Todo[]>
    followUps,          \* useState<FollowUp[]>
    categories,         \* useState<Category[]>
    selectedProjectId,  \* useState<string | null>
    lastSelected,       \* localStorage 'last_selected_projectId'
    seeded,             \* localStorage 'seeded_categories_<uid>'
    toast,              \* useState<{message, show, type}>
    pending,            \* suspended calls: the remote calls in flight
    nextId,             \* supply of uuidv4()
    nops,               \* number of operations invoked so far
    hist,               \* history: what each invocation saw (for the properties)
    load,               \* history: how the initial load and the seeding ended
    tracker             \* ProjectMilestonesTracker: localMilestones and its debounce timer

vars == <<userId, isLoading, projects, transactions, todos, followUps,
          categories, selectedProjectId, lastSelected, seeded, toast,
          pending, nextId, nops, hist, load, tracker>>

colls == <<projects, transactions, todos, followUps, categories>>

\* new Date().toISOString(): the clock as the next operation reads it.  Time
\* moves on between two operations; stored entities carry time 0.
now == nops + 1

\* ----------------------------------------------------------------- helpers
Range(s) == {s[i] : i \in 1..Len(s)}

\* Faulty variant: every entry is overwritten, not only the one of that id.
MapReplace_All(s, id, item) == [i \in 1..Len(s) |-> item]

\* prev.map(p => p.id === id ? item : p)
MapReplace(s, id, item) == [i \in 1..Len(s) |-> IF s[i].id = id THEN item ELSE s[i]]

\* prev.filter(p => p.id !== id)
FilterId(s, id) == SelectSeq(s, LAMBDA e : e.id # id)

\* Faulty variant: the dependents of the project are kept.
FilterProject_KeepsAll(s, id) == s

\* prev.filter(t => t.project_id !== id)
FilterProject(s, id) == SelectSeq(s, LAMBDA e : e.project_id # id)

\* projects.find(p => p.id === id), as a sequence of zero or one element
Find(s, id) == LET f == SelectSeq(s, LAMBDA e : e.id = id)
               IN IF f = <<>> THEN <<>> ELSE <<f[1]>>

\* { ...base, ...data }: the fields of data override those of base; the
\* result has the fields of both.
Spread(base, data) ==
    [f \in (DOMAIN base) \cup (DOMAIN data) |->
        IF f \in DOMAIN data THEN data[f] ELSE base[f]]

\* showToast(message, type): sets the toast and shows it.  (The timer that
\* hides it again after three seconds changes nothing but `show`; the toast
\* here is the last notification raised.)
showToast(message, type) == [message |-> message, type |-> type, show |-> TRUE]

\* The entity the server sends back for a create/update/batchUpdate request
\* (api.ts: `return response.json()`): the entity it was sent, in the
\* server's canonical representation.  `server` stands for everything of the
\* representation that only the server decides; it names the request n that
\* produced it, and is 0 on an entity no server answer has produced.
ServerReply(item, n) == Spread(item, [server |-> n])

\* ---------------------------------------------------------------- defaults
DEFAULT_PROJECT ==
    [val |-> "", milestones |-> {}, paymentMilestones |-> {}, server |-> 0]
DEFAULT_TRANSACTION == [val |-> "", server |-> 0]
DEFAULT_TODO == [val |-> "", server |-> 0]
DEFAULT_FOLLOWUP == [val |-> "", server |-> 0]
DEFAULT_CATEGORY == [val |-> "", server |-> 0]

\* Faulty variant: an update keeps the updated_at it found.
OptimisticItem_StaleTime(default, data, existing) ==
    IF existing = <<>>
    THEN Spread(Spread(default, data),
                [id |-> nextId, uid |-> userId,
                 created_at |-> now, updated_at |-> now])
    ELSE Spread(existing[1], data)

\* Faulty variant: the supplied data is spread last and wins over the
\* fields the save sets on a new entity.
OptimisticItem_DataWins(default, data, existing) ==
    IF existing = <<>>
    THEN Spread(Spread(default,
                       [id |-> nextId, uid |-> userId,
                        created_at |-> now, updated_at |-> now]),
                data)
    ELSE Spread(Spread(existing[1], data), [updated_at |-> now])

\* The complete entity a save synthesizes:
\*   isNew ? { ...DEFAULT, ...data, id: uuidv4(), uid: userId,
\*             created_at: now, updated_at: now }
\*         : { ...existing!, ...data, updated_at: now }
\* `existing` is <<>> for null and <<e>> for the entity e.
OptimisticItem(default, data, existing) ==
    IF existing = <<>>
    THEN Spread(Spread(default, data),
                [id |-> nextId, uid |-> userId,
                 created_at |-> now, updated_at |-> now])
    ELSE Spread(Spread(existing[1], data), [updated_at |-> now])

\* Faulty variant: nothing is applied before the remote call resolves.
OptimisticApply_Skipped(prev, isNew, optimisticItem) == prev

\* Faulty variant: an update is appended like a new entity.
OptimisticApply_Appends(prev, isNew, optimisticItem) == Append(prev, optimisticItem)

\* isNew ? [...prev, optimisticItem]
\*       : prev.map(p => p.id === optimisticItem.id ? optimisticItem : p)
OptimisticApply(prev, isNew, optimisticItem) ==
    IF isNew THEN Append(prev, optimisticItem)
    ELSE MapReplace(prev, optimisticItem.id, optimisticItem)

\* ------------------------------------------------- ProjectMilestonesTracker
\* The tracker is rendered, inside ProjectDetail, while the provider is not
\* loading and the selected project is in the collection.  A milestone
\* sequence is the set of its ticked boxes.  `timer` is the timeout of
\* useDebouncedCallback: none, or the arguments of the pending call and the
\* `projects` the callback of that render closes over.  `burst` is
\* history: the toggles made since the timer was armed from idle, each
\* with its box and what it set `completed` to.  PaymentMilestonesTracker,
\* rendered next to it, has a localMilestones and a timeout of its own:
\* localPayments (the set of the payments received), paymentTimer and the
\* length of its burst, paymentEdits.  `sent` is history: the sequence the
\* last call of each tracker carried.
Unmounted ==
    [mounted |-> FALSE, localMilestones |-> {}, timer |-> <<>>, burst |-> <<>>,
     localPayments |-> {}, paymentTimer |-> <<>>, paymentEdits |-> 0,
     sent |-> [milestones |-> <<>>, payments |-> <<>>]]

\* What a state change does to the tracker `t` when the component tree
\* renders again: unmounting runs the cleanup of useDebouncedCallback
\* (clearTimeout); mounting starts with useState(project.milestones); a
\* project prop whose milestones array is another object (another project,
\* other milestones, or the entity of a server answer) runs the effect
\* setLocalMilestones(project.milestones), and likewise for the payment
\* tracker and project.paymentMilestones.  ProjectDetail has no key, so
\* another selected project is a new prop of the same trackers, and a timer
\* that is armed stays armed.
renderTrackerFrom(t) ==
    LET old == IF isLoading THEN <<>> ELSE Find(projects, selectedProjectId)
        new == IF isLoading' THEN <<>> ELSE Find(projects', selectedProjectId')
    IN tracker' =
         IF new = <<>> THEN Unmounted
         ELSE IF ~t.mounted \/ old = <<>>
         THEN [Unmounted EXCEPT !.mounted = TRUE,
                                !.localMilestones = new[1].milestones,
                                !.localPayments = new[1].paymentMilestones]
         ELSE [t EXCEPT
                 !.localMilestones =
                     IF \/ new[1].id # old[1].id
                        \/ new[1].milestones # old[1].milestones
                        \/ new[1].server # old[1].server
                     THEN new[1].milestones ELSE @,
                 !.localPayments =
                     IF \/ new[1].id # old[1].id
                        \/ new[1].paymentMilestones # old[1].paymentMilestones
                        \/ new[1].server # old[1].server
                     THEN new[1].paymentMilestones ELSE @]

\* The render after a step of the store, which leaves the tracker's own
\* state alone.
renderTracker == renderTrackerFrom(tracker)

\* -------------------------------------------------- history of invocations
\* The collections an operation reads or writes.
Touches(op) ==
    CASE op \in {"saveProject", "batchUpdate"} -> {"projects"}
      [] op = "deleteProject" -> {"projects", "transactions", "todos", "followUps"}
      [] op \in {"saveTransaction", "deleteTransaction"} -> {"transactions"}
      [] op \in {"saveTodo", "deleteTodo"} -> {"todos"}
      [] op \in {"saveFollowUp", "deleteFollowUp"} -> {"followUps"}
      [] op \in {"saveCategory", "deleteCategory"} -> {"categories"}
      [] OTHER -> {}

Overlaps(h, op) == h.out = "pending" /\ Touches(h.op) \cap Touches(op) # {}

\* hist after operation `op` has been invoked with `arg` and has reached its
\* await (out = "pending") or returned early (out = "returned").  `pre` is
\* the five collections and `sel` the selection as they were when it was
\* invoked, `inflight` the operations then in flight; `solo` says that no
\* other operation on one of its collections was in flight at any time since.
Invoked(op, arg, out) ==
    Append([i \in 1..Len(hist) |->
               IF out = "pending" /\ Overlaps(hist[i], op)
               THEN [hist[i] EXCEPT !.solo = FALSE] ELSE hist[i]],
           [op |-> op, arg |-> arg, pre |-> colls, sel |-> selectedProjectId,
            out |-> out,
            inflight |-> {i \in 1..Len(hist) : hist[i].out = "pending"},
            solo |-> \A i \in 1..Len(hist) : ~Overlaps(hist[i], op)])

\* hist after the remote call of operation n has resolved.
Resolved(n, out) == [hist EXCEPT ![n].out = out]

\* ------------------------------------------------------------ initial load
\* What the server may hold for the user when the session starts
\* (api.fetchAllData): nothing, or two projects with a transaction and a
\* to-do under the first, a follow-up under the second, and one category.
Stored(id, fields) ==
    Spread(fields, [id |-> id, uid |-> TheUser, val |-> "a",
                    created_at |-> 0, updated_at |-> 0, server |-> 0])

NoData ==
    [projects |-> <<>>, transactions |-> <<>>, todos |-> <<>>,
     followups |-> <<>>, categories |-> <<>>]

SomeData ==
    [projects |-> << Stored(1, [milestones |-> {}, paymentMilestones |-> {}]),
                     Stored(2, [milestones |-> {}, paymentMilestones |-> {}]) >>,
     transactions |-> << Stored(3, [project_id |-> 1]) >>,
     todos |-> << Stored(4, [project_id |-> 1]) >>,
     followups |-> << Stored(5, [project_id |-> 2]) >>,
     categories |-> << Stored(6, <<>>) >>]

ServerData == {NoData, SomeData}

\* The first identifier uuidv4() hands out (above every stored one).
FirstId == 7

\* The first and the last of the eight default category names.
defaultCategoryNames == << "Panels", "Misc" >>

\* State of a freshly constructed AppProvider, with what an earlier session
\* may have left in localStorage.
Init ==
    /\ userId = NoUser
    /\ isLoading = TRUE
    /\ projects = <<>>
    /\ transactions = <<>>
    /\ todos = <<>>
    /\ followUps = <<>>
    /\ categories = <<>>
    /\ selectedProjectId = NoId
    /\ \E ls \in {<<NoId, FALSE>>, <<2, TRUE>>} :
          lastSelected = ls[1] /\ seeded = ls[2]
    /\ toast = [message |-> "", type |-> "success", show |-> FALSE]
    /\ pending = {}
    /\ nextId = FirstId
    /\ nops = 0
    /\ hist = <<>>
    /\ load = [fetch |-> "idle", seed |-> "idle"]
    /\ tracker = Unmounted

\* The mount effect up to the await in fetchData: getOrCreateUserId(),
\* setUserId, setIsLoading(true), api.fetchAllData in flight.
mount ==
    /\ userId = NoUser
    /\ isLoading
    /\ userId' = TheUser
    /\ pending' = pending \cup {[n |-> 0, op |-> "fetchData"]}
    /\ load' = [load EXCEPT !.fetch = "pending"]
    /\ UNCHANGED <<isLoading, colls, selectedProjectId, lastSelected, seeded,
                   toast, nextId, nops, hist>>
    /\ renderTracker

\* fetchData after api.fetchAllData resolved with `data`.
fetchDataOk(data) ==
    /\ [n |-> 0, op |-> "fetchData"] \in pending
    /\ LET projectsList == data.projects
           seeding == data.categories = <<>> /\ ~seeded
           newCategories ==
               [i \in 1..Len(defaultCategoryNames) |->
                   [id |-> nextId + i - 1, uid |-> userId,
                    val |-> defaultCategoryNames[i],
                    created_at |-> now, updated_at |-> now, server |-> 0]]
       IN /\ projects' = projectsList
          /\ transactions' = data.transactions
          /\ todos' = data.todos
          /\ followUps' = data.followups
          /\ categories' = IF data.categories # <<>> THEN data.categories
                           ELSE IF seeding THEN newCategories ELSE <<>>
          /\ nextId' = IF seeding THEN nextId + Len(defaultCategoryNames) ELSE nextId
          /\ pending' = (pending \ {[n |-> 0, op |-> "fetchData"]})
                          \cup (IF seeding THEN {[n |-> 0, op |-> "seedCategories"]} ELSE {})
          /\ selectedProjectId' =
                IF lastSelected # NoId /\ \E i \in 1..Len(projectsList) : projectsList[i].id = lastSelected
                THEN lastSelected
                ELSE IF Len(projectsList) > 0 THEN projectsList[1].id
                ELSE selectedProjectId
    /\ isLoading' = FALSE
    /\ load' = [fetch |-> "ok", seed |-> IF data.categories = <<>> /\ ~seeded THEN "pending" ELSE load.seed]
    /\ UNCHANGED <<userId, lastSelected, seeded, toast, nops, hist>>
    /\ renderTracker

\* fetchData's catch block.
fetchDataFail ==
    /\ [n |-> 0, op |-> "fetchData"] \in pending
    /\ pending' = pending \ {[n |-> 0, op |-> "fetchData"]}
    /\ toast' = showToast("Failed to load data from the server.", "error")
    /\ isLoading' = FALSE
    /\ load' = [load EXCEPT !.fetch = "failed"]
    /\ UNCHANGED <<userId, colls, selectedProjectId, lastSelected, seeded, nextId, nops, hist>>
    /\ renderTracker

\* Promise.all(newCategories.map(cat => api.saveCategory(cat, true))).then
seedCategoriesOk ==
    /\ [n |-> 0, op |-> "seedCategories"] \in pending
    /\ pending' = pending \ {[n |-> 0, op |-> "seedCategories"]}
    /\ seeded' = TRUE
    /\ load' = [load EXCEPT !.seed = "ok"]
    /\ UNCHANGED <<userId, isLoading, colls, selectedProjectId, lastSelected,
                   toast, nextId, nops, hist>>
    /\ renderTracker

\* ... .catch
seedCategoriesFail ==
    /\ [n |-> 0, op |-> "seedCategories"] \in pending
    /\ pending' = pending \ {[n |-> 0, op |-> "seedCategories"]}
    /\ toast' = showToast("Could not save initial categories. Please refresh.", "error")
    /\ load' = [load EXCEPT !.seed = "failed"]
    /\ UNCHANGED <<userId, isLoading, colls, selectedProjectId, lastSelected,
                   seeded, nextId, nops, hist>>
    /\ renderTracker

\* ------------------------------------------------------- store operations
\* An operation that shows a toast and returns before touching anything.
ReturnWithToast(op, message) ==
    /\ toast' = showToast(message, "error")
    /\ nops' = nops + 1
    /\ hist' = Invoked(op, <<>>, "returned")
    /\ UNCHANGED <<userId, load, isLoading, colls, selectedProjectId, lastSelected,
                   seeded, pending, nextId>>
    /\ renderTracker

\* Faulty variant: the closure does not keep the collection it was given.
SaveCall_EmptySnapshot(op, isNew, optimisticItem, originalState) ==
    [n |-> nops + 1, op |-> op, isNew |-> isNew,
     optimisticItem |-> optimisticItem, originalState |-> <<>>]

\* The closure of a save suspended at `await api.saveX(optimisticItem, isNew)`.
SaveCall(op, isNew, optimisticItem, originalState) ==
    [n |-> nops + 1, op |-> op, isNew |-> isNew,
     optimisticItem |-> optimisticItem, originalState |-> originalState]

\* The closure of a delete suspended at `await api.deleteX(id)`.
DeleteCall(op, id, originalState) ==
    [n |-> nops + 1, op |-> op, id |-> id, originalState |-> originalState]

\* saveProject(data, existing) up to the await.
saveProject(data, existing) ==
    /\ nops < MaxOps
    /\ IF userId = NoUser
       THEN ReturnWithToast("saveProject", "User ID not found. Cannot save.")
       ELSE LET isNew == existing = <<>>
                optimisticItem == OptimisticItem(DEFAULT_PROJECT, data, existing)
                originalState == projects
            IN /\ projects' = OptimisticApply(projects, isNew, optimisticItem)
               /\ pending' = pending \cup
                     {SaveCall("saveProject", isNew, optimisticItem, originalState)}
               /\ nextId' = IF isNew THEN nextId + 1 ELSE nextId
               /\ nops' = nops + 1
               /\ hist' = Invoked("saveProject", optimisticItem, "pending")
               /\ UNCHANGED <<userId, load, isLoading, transactions, todos, followUps,
                              categories, selectedProjectId, lastSelected,
                              seeded, toast>>
               /\ renderTracker

\* saveProject after api.saveProject resolved: reconcile with savedItem.
saveProjectOk(c) ==
    /\ c \in pending /\ c.op = "saveProject"
    /\ LET savedItem == ServerReply(c.optimisticItem, c.n)
       IN projects' = MapReplace(projects, c.optimisticItem.id, savedItem)
    /\ pending' = pending \ {c}
    /\ hist' = Resolved(c.n, "ok")
    /\ UNCHANGED <<userId, load, isLoading, transactions, todos, followUps,
                   categories, selectedProjectId, lastSelected, seeded, toast, nextId, nops>>
    /\ renderTracker

\* Faulty variant: the rollback also drops the selection.
saveProjectFail_Deselects(c) ==
    /\ c \in pending /\ c.op = "saveProject"
    /\ toast' = showToast(IF c.isNew THEN "Error creating project. Reverting."
                          ELSE "Error updating project. Reverting.", "error")
    /\ projects' = c.originalState
    /\ selectedProjectId' = NoId
    /\ lastSelected' = NoId
    /\ pending' = pending \ {c}
    /\ hist' = Resolved(c.n, "failed")
    /\ UNCHANGED <<userId, load, isLoading, transactions, todos, followUps,
                   categories, seeded, nextId, nops>>
    /\ renderTracker

\* saveProject's catch block: toast and revert to originalState.
saveProjectFail(c) ==
    /\ c \in pending /\ c.op = "saveProject"
    /\ toast' = showToast(IF c.isNew THEN "Error creating project. Reverting."
                          ELSE "Error updating project. Reverting.", "error")
    /\ projects' = c.originalState
    /\ pending' = pending \ {c}
    /\ hist' = Resolved(c.n, "failed")
    /\ UNCHANGED <<userId, load, isLoading, transactions, todos, followUps,
                   categories, selectedProjectId, lastSelected, seeded, nextId, nops>>
    /\ renderTracker

\* Faulty variant: the selection stays what it was.
setSelectedProjectId_Ignored(id) ==
    /\ selectedProjectId' = selectedProjectId
    /\ lastSelected' = lastSelected

\* setSelectedProjectId(id): the state and its localStorage copy
\* (removeItem leaves NoId).
setSelectedProjectId(id) ==
    /\ selectedProjectId' = id
    /\ lastSelected' = id

\* A click on a project of the sidebar: setSelectedProjectId(project.id).
selectProject(id) ==
    /\ nops < MaxOps
    /\ setSelectedProjectId(id)
    /\ nops' = nops + 1
    /\ hist' = Invoked("setSelectedProjectId", [id |-> id], "returned")
    /\ UNCHANGED <<userId, load, isLoading, colls, seeded, toast, pending, nextId>>
    /\ renderTracker

\* deleteProject(id) up to the await: the cascade and the selection fallback.
deleteProject(id) ==
    /\ nops < MaxOps
    /\ LET originalProjects == projects
           originalTransactions == transactions
           originalTodos == todos
           originalFollowUps == followUps
           remaining == FilterId(originalProjects, id)
       IN /\ projects' = FilterId(projects, id)
          /\ transactions' = FilterProject(transactions, id)
          /\ todos' = FilterProject(todos, id)
          /\ followUps' = FilterProject(followUps, id)
          /\ IF selectedProjectId = id
             THEN setSelectedProjectId(IF Len(remaining) > 0 THEN remaining[1].id ELSE NoId)
             ELSE UNCHANGED <<selectedProjectId, lastSelected>>
          /\ pending' = pending \cup
                {[n |-> nops + 1, op |-> "deleteProject", id |-> id,
                  originalProjects |-> originalProjects,
                  originalTransactions |-> originalTransactions,
                  originalTodos |-> originalTodos,
                  originalFollowUps |-> originalFollowUps]}
    /\ nops' = nops + 1
    /\ hist' = Invoked("deleteProject", [id |-> id], "pending")
    /\ UNCHANGED <<userId, load, isLoading, categories, seeded, toast, nextId>>
    /\ renderTracker

\* deleteProject after api.deleteProject resolved: nothing left to do.
deleteProjectOk(c) ==
    /\ c \in pending /\ c.op = "deleteProject"
    /\ pending' = pending \ {c}
    /\ hist' = Resolved(c.n, "ok")
    /\ UNCHANGED <<userId, load, isLoading, colls, selectedProjectId, lastSelected,
                   seeded, toast, nextId, nops>>
    /\ renderTracker

\* Faulty variant: the rollback selects the restored project again.
deleteProjectFail_Reselects(c) ==
    /\ c \in pending /\ c.op = "deleteProject"
    /\ toast' = showToast("Error deleting project. Reverting.", "error")
    /\ projects' = c.originalProjects
    /\ transactions' = c.originalTransactions
    /\ todos' = c.originalTodos
    /\ followUps' = c.originalFollowUps
    /\ setSelectedProjectId(c.id)
    /\ pending' = pending \ {c}
    /\ hist' = Resolved(c.n, "failed")
    /\ UNCHANGED <<userId, load, isLoading, categories, seeded, nextId, nops>>
    /\ renderTracker

\* deleteProject's catch block: toast and restore the four collections.
deleteProjectFail(c) ==
    /\ c \in pending /\ c.op = "deleteProject"
    /\ toast' = showToast("Error deleting project. Reverting.", "error")
    /\ projects' = c.originalProjects
    /\ transactions' = c.originalTransactions
    /\ todos' = c.originalTodos
    /\ followUps' = c.originalFollowUps
    /\ pending' = pending \ {c}
    /\ hist' = Resolved(c.n, "failed")
    /\ UNCHANGED <<userId, load, isLoading, categories, selectedProjectId,
                   lastSelected, seeded, nextId, nops>>
    /\ renderTracker

\* saveTransaction(data, existing) up to the await.
saveTransaction(data, existing) ==
    /\ nops < MaxOps
    /\ IF userId = NoUser
       THEN ReturnWithToast("saveTransaction", "User ID not found.")
       ELSE IF existing = <<>> /\ data.project_id = NoId
       THEN ReturnWithToast("saveTransaction", "Cannot create transaction without a project.")
       ELSE LET isNew == existing = <<>>
                optimisticItem == OptimisticItem(DEFAULT_TRANSACTION, data, existing)
                originalState == transactions
            IN /\ transactions' = OptimisticApply(transactions, isNew, optimisticItem)
               /\ pending' = pending \cup
                     {SaveCall("saveTransaction", isNew, optimisticItem, originalState)}
               /\ nextId' = IF isNew THEN nextId + 1 ELSE nextId
               /\ nops' = nops + 1
               /\ hist' = Invoked("saveTransaction", optimisticItem, "pending")
               /\ UNCHANGED <<userId, load, isLoading, projects, todos, followUps, categories,
                              selectedProjectId, lastSelected, seeded, toast>>
               /\ renderTracker

\* saveTransaction after api.saveTransaction resolved: reconcile with savedItem.
saveTransactionOk(c) ==
    /\ c \in pending /\ c.op = "saveTransaction"
    /\ LET savedItem == ServerReply(c.optimisticItem, c.n)
       IN transactions' = MapReplace(transactions, c.optimisticItem.id, savedItem)
    /\ pending' = pending \ {c}
    /\ hist' = Resolved(c.n, "ok")
    /\ UNCHANGED <<userId, load, isLoading, projects, todos, followUps, categories,
                   selectedProjectId, lastSelected, seeded, toast, nextId, nops>>
    /\ renderTracker

\* Faulty variant: the catch block shows the toast and reverts nothing.
saveTransactionFail_NoRevert(c) ==
    /\ c \in pending /\ c.op = "saveTransaction"
    /\ toast' = showToast("Error saving transaction. Reverting.", "error")
    /\ pending' = pending \ {c}
    /\ hist' = Resolved(c.n, "failed")
    /\ UNCHANGED <<userId, load, isLoading, colls, selectedProjectId, lastSelected,
                   seeded, nextId, nops>>
    /\ renderTracker

\* saveTransaction's catch block: toast and revert to originalState.
saveTransactionFail(c) ==
    /\ c \in pending /\ c.op = "saveTransaction"
    /\ toast' = showToast("Error saving transaction. Reverting.", "error")
    /\ transactions' = c.originalState
    /\ pending' = pending \ {c}
    /\ hist' = Resolved(c.n, "failed")
    /\ UNCHANGED <<userId, load, isLoading, projects, todos, followUps, categories,
                   selectedProjectId, lastSelected, seeded, nextId, nops>>
    /\ renderTracker

\* deleteTransaction(id) up to the await.
deleteTransaction(id) ==
    /\ nops < MaxOps
    /\ LET originalState == transactions
       IN /\ transactions' = FilterId(transactions, id)
          /\ pending' = pending \cup {DeleteCall("deleteTransaction", id, originalState)}
    /\ nops' = nops + 1
    /\ hist' = Invoked("deleteTransaction", [id |-> id], "pending")
    /\ UNCHANGED <<userId, load, isLoading, projects, todos, followUps, categories,
                   selectedProjectId, lastSelected, seeded, toast, nextId>>
    /\ renderTracker

\* deleteTransaction after api.deleteTransaction resolved: nothing left to do.
deleteTransactionOk(c) ==
    /\ c \in pending /\ c.op = "deleteTransaction"
    /\ pending' = pending \ {c}
    /\ hist' = Resolved(c.n, "ok")
    /\ UNCHANGED <<userId, load, isLoading, colls, selectedProjectId, lastSelected,
                   seeded, toast, nextId, nops>>
    /\ renderTracker

\* deleteTransaction's catch block: toast and revert to originalState.
deleteTransactionFail(c) ==
    /\ c \in pending /\ c.op = "deleteTransaction"
    /\ toast' = showToast("Error deleting transaction. Reverting.", "error")
    /\ transactions' = c.originalState
    /\ pending' = pending \ {c}
    /\ hist' = Resolved(c.n, "failed")
    /\ UNCHANGED <<userId, load, isLoading, projects, todos, followUps, categories,
                   selectedProjectId, lastSelected, seeded, nextId, nops>>
    /\ renderTracker

\* saveTodo(data, existing) up to the await.
saveTodo(data, existing) ==
    /\ nops < MaxOps
    /\ IF userId = NoUser
       THEN ReturnWithToast("saveTodo", "User ID not found.")
       ELSE IF existing = <<>> /\ data.project_id = NoId
       THEN ReturnWithToast("saveTodo", "Cannot create to-do without a project.")
       ELSE LET isNew == existing = <<>>
                optimisticItem == OptimisticItem(DEFAULT_TODO, data, existing)
                originalState == todos
            IN /\ todos' = OptimisticApply(todos, isNew, optimisticItem)
               /\ pending' = pending \cup
                     {SaveCall("saveTodo", isNew, optimisticItem, originalState)}
               /\ nextId' = IF isNew THEN nextId + 1 ELSE nextId
               /\ nops' = nops + 1
               /\ hist' = Invoked("saveTodo", optimisticItem, "pending")
               /\ UNCHANGED <<userId, load, isLoading, projects, transactions, followUps, categories,
                              selectedProjectId, lastSelected, seeded, toast>>
               /\ renderTracker

\* saveTodo after api.saveTodo resolved: reconcile with savedItem.
saveTodoOk(c) ==
    /\ c \in pending /\ c.op = "saveTodo"
    /\ LET savedItem == ServerReply(c.optimisticItem, c.n)
       IN todos' = MapReplace(todos, c.optimisticItem.id, savedItem)
    /\ pending' = pending \ {c}
    /\ hist' = Resolved(c.n, "ok")
    /\ UNCHANGED <<userId, load, isLoading, projects, transactions, followUps, categories,
                   selectedProjectId, lastSelected, seeded, toast, nextId, nops>>
    /\ renderTracker

\* Faulty variant: the catch block takes back its own entity only and keeps
\* what later operations did to the collection.
saveTodoFail_OwnEntityOnly(c) ==
    /\ c \in pending /\ c.op = "saveTodo"
    /\ toast' = showToast("Error saving to-do. Reverting.", "error")
    /\ todos' = IF todos = OptimisticApply(c.originalState, c.isNew, c.optimisticItem)
                THEN c.originalState ELSE todos
    /\ pending' = pending \ {c}
    /\ hist' = Resolved(c.n, "failed")
    /\ UNCHANGED <<userId, load, isLoading, projects, transactions, followUps, categories,
                   selectedProjectId, lastSelected, seeded, nextId, nops>>
    /\ renderTracker

\* saveTodo's catch block: toast and revert to originalState.
saveTodoFail(c) ==
    /\ c \in pending /\ c.op = "saveTodo"
    /\ toast' = showToast("Error saving to-do. Reverting.", "error")
    /\ todos' = c.originalState
    /\ pending' = pending \ {c}
    /\ hist' = Resolved(c.n, "failed")
    /\ UNCHANGED <<userId, load, isLoading, projects, transactions, followUps, categories,
                   selectedProjectId, lastSelected, seeded, nextId, nops>>
    /\ renderTracker

\* deleteTodo(id) up to the await.
deleteTodo(id) ==
    /\ nops < MaxOps
    /\ LET originalState == todos
       IN /\ todos' = FilterId(todos, id)
          /\ pending' = pending \cup {DeleteCall("deleteTodo", id, originalState)}
    /\ nops' = nops + 1
    /\ hist' = Invoked("deleteTodo", [id |-> id], "pending")
    /\ UNCHANGED <<userId, load, isLoading, projects, transactions, followUps, categories,
                   selectedProjectId, lastSelected, seeded, toast, nextId>>
    /\ renderTracker

\* deleteTodo after api.deleteTodo resolved: nothing left to do.
deleteTodoOk(c) ==
    /\ c \in pending /\ c.op = "deleteTodo"
    /\ pending' = pending \ {c}
    /\ hist' = Resolved(c.n, "ok")
    /\ UNCHANGED <<userId, load, isLoading, colls, selectedProjectId, lastSelected,
                   seeded, toast, nextId, nops>>
    /\ renderTracker

\* deleteTodo's catch block: toast and revert to originalState.
deleteTodoFail(c) ==
    /\ c \in pending /\ c.op = "deleteTodo"
    /\ toast' = showToast("Error deleting to-do. Reverting.", "error")
    /\ todos' = c.originalState
    /\ pending' = pending \ {c}
    /\ hist' = Resolved(c.n, "failed")
    /\ UNCHANGED <<userId, load, isLoading, projects, transactions, followUps, categories,
                   selectedProjectId, lastSelected, seeded, nextId, nops>>
    /\ renderTracker

\* Faulty variant: a new follow-up is accepted without a project.
saveFollowUp_NoValidation(data, existing) ==
    /\ nops < MaxOps
    /\ IF userId = NoUser
       THEN ReturnWithToast("saveFollowUp", "User ID not found.")
       ELSE LET isNew == existing = <<>>
                optimisticItem == OptimisticItem(DEFAULT_FOLLOWUP, data, existing)
                originalState == followUps
            IN /\ followUps' = OptimisticApply(followUps, isNew, optimisticItem)
               /\ pending' = pending \cup
                     {SaveCall("saveFollowUp", isNew, optimisticItem, originalState)}
               /\ nextId' = IF isNew THEN nextId + 1 ELSE nextId
               /\ nops' = nops + 1
               /\ hist' = Invoked("saveFollowUp", optimisticItem, "pending")
               /\ UNCHANGED <<userId, load, isLoading, projects, transactions, todos, categories,
                              selectedProjectId, lastSelected, seeded, toast>>
               /\ renderTracker

\* saveFollowUp(data, existing) up to the await.
saveFollowUp(data, existing) ==
    /\ nops < MaxOps
    /\ IF userId = NoUser
       THEN ReturnWithToast("saveFollowUp", "User ID not found.")
       ELSE IF existing = <<>> /\ data.project_id = NoId
       THEN ReturnWithToast("saveFollowUp", "Cannot create follow-up without a project.")
       ELSE LET isNew == existing = <<>>
                optimisticItem == OptimisticItem(DEFAULT_FOLLOWUP, data, existing)
                originalState == followUps
            IN /\ followUps' = OptimisticApply(followUps, isNew, optimisticItem)
               /\ pending' = pending \cup
                     {SaveCall("saveFollowUp", isNew, optimisticItem, originalState)}
               /\ nextId' = IF isNew THEN nextId + 1 ELSE nextId
               /\ nops' = nops + 1
               /\ hist' = Invoked("saveFollowUp", optimisticItem, "pending")
               /\ UNCHANGED <<userId, load, isLoading, projects, transactions, todos, categories,
                              selectedProjectId, lastSelected, seeded, toast>>
               /\ renderTracker

\* saveFollowUp after api.saveFollowUp resolved: reconcile with savedItem.
saveFollowUpOk(c) ==
    /\ c \in pending /\ c.op = "saveFollowUp"
    /\ LET savedItem == ServerReply(c.optimisticItem, c.n)
       IN followUps' = MapReplace(followUps, c.optimisticItem.id, savedItem)
    /\ pending' = pending \ {c}
    /\ hist' = Resolved(c.n, "ok")
    /\ UNCHANGED <<userId, load, isLoading, projects, transactions, todos, categories,
                   selectedProjectId, lastSelected, seeded, toast, nextId, nops>>
    /\ renderTracker

\* saveFollowUp's catch block: toast and revert to originalState.
saveFollowUpFail(c) ==
    /\ c \in pending /\ c.op = "saveFollowUp"
    /\ toast' = showToast("Error saving follow-up. Reverting.", "error")
    /\ followUps' = c.originalState
    /\ pending' = pending \ {c}
    /\ hist' = Resolved(c.n, "failed")
    /\ UNCHANGED <<userId, load, isLoading, projects, transactions, todos, categories,
                   selectedProjectId, lastSelected, seeded, nextId, nops>>
    /\ renderTracker

\* deleteFollowUp(id) up to the await.
deleteFollowUp(id) ==
    /\ nops < MaxOps
    /\ LET originalState == followUps
       IN /\ followUps' = FilterId(followUps, id)
          /\ pending' = pending \cup {DeleteCall("deleteFollowUp", id, originalState)}
    /\ nops' = nops + 1
    /\ hist' = Invoked("deleteFollowUp", [id |-> id], "pending")
    /\ UNCHANGED <<userId, load, isLoading, projects, transactions, todos, categories,
                   selectedProjectId, lastSelected, seeded, toast, nextId>>
    /\ renderTracker

\* deleteFollowUp after api.deleteFollowUp resolved: nothing left to do.
deleteFollowUpOk(c) ==
    /\ c \in pending /\ c.op = "deleteFollowUp"
    /\ pending' = pending \ {c}
    /\ hist' = Resolved(c.n, "ok")
    /\ UNCHANGED <<userId, load, isLoading, colls, selectedProjectId, lastSelected,
                   seeded, toast, nextId, nops>>
    /\ renderTracker

\* deleteFollowUp's catch block: toast and revert to originalState.
deleteFollowUpFail(c) ==
    /\ c \in pending /\ c.op = "deleteFollowUp"
    /\ toast' = showToast("Error deleting follow-up. Reverting.", "error")
    /\ followUps' = c.originalState
    /\ pending' = pending \ {c}
    /\ hist' = Resolved(c.n, "failed")
    /\ UNCHANGED <<userId, load, isLoading, projects, transactions, todos, categories,
                   selectedProjectId, lastSelected, seeded, nextId, nops>>
    /\ renderTracker

\* saveCategory(data, existing) up to the await.
saveCategory(data, existing) ==
    /\ nops < MaxOps
    /\ IF userId = NoUser
       THEN ReturnWithToast("saveCategory", "User ID not found.")
       ELSE LET isNew == existing = <<>>
                optimisticItem == OptimisticItem(DEFAULT_CATEGORY, data, existing)
                originalState == categories
            IN /\ categories' = OptimisticApply(categories, isNew, optimisticItem)
               /\ pending' = pending \cup
                     {SaveCall("saveCategory", isNew, optimisticItem, originalState)}
               /\ nextId' = IF isNew THEN nextId + 1 ELSE nextId
               /\ nops' = nops + 1
               /\ hist' = Invoked("saveCategory", optimisticItem, "pending")
               /\ UNCHANGED <<userId, load, isLoading, projects, transactions, todos, followUps,
                              selectedProjectId, lastSelected, seeded, toast>>
               /\ renderTracker

\* saveCategory after api.saveCategory resolved: reconcile with savedItem.
saveCategoryOk(c) ==
    /\ c \in pending /\ c.op = "saveCategory"
    /\ LET savedItem == ServerReply(c.optimisticItem, c.n)
       IN categories' = MapReplace(categories, c.optimisticItem.id, savedItem)
    /\ pending' = pending \ {c}
    /\ hist' = Resolved(c.n, "ok")
    /\ UNCHANGED <<userId, load, isLoading, projects, transactions, todos, followUps,
                   selectedProjectId, lastSelected, seeded, toast, nextId, nops>>
    /\ renderTracker

\* saveCategory's catch block: toast and revert to originalState.
saveCategoryFail(c) ==
    /\ c \in pending /\ c.op = "saveCategory"
    /\ toast' = showToast("Error saving category. Reverting.", "error")
    /\ categories' = c.originalState
    /\ pending' = pending \ {c}
    /\ hist' = Resolved(c.n, "failed")
    /\ UNCHANGED <<userId, load, isLoading, projects, transactions, todos, followUps,
                   selectedProjectId, lastSelected, seeded, nextId, nops>>
    /\ renderTracker

\* deleteCategory(id) up to the await.
deleteCategory(id) ==
    /\ nops < MaxOps
    /\ LET originalState == categories
       IN /\ categories' = FilterId(categories, id)
          /\ pending' = pending \cup {DeleteCall("deleteCategory", id, originalState)}
    /\ nops' = nops + 1
    /\ hist' = Invoked("deleteCategory", [id |-> id], "pending")
    /\ UNCHANGED <<userId, load, isLoading, projects, transactions, todos, followUps,
                   selectedProjectId, lastSelected, seeded, toast, nextId>>
    /\ renderTracker

\* Faulty variant: the operation is over and its call is still counted as
\* in flight.
deleteCategoryOk_StaysPending(c) ==
    /\ c \in pending /\ c.op = "deleteCategory"
    /\ hist' = Resolved(c.n, "ok")
    /\ UNCHANGED <<userId, load, isLoading, colls, selectedProjectId, lastSelected,
                   seeded, toast, pending, nextId, nops>>
    /\ renderTracker

\* deleteCategory after api.deleteCategory resolved: nothing left to do.
deleteCategoryOk(c) ==
    /\ c \in pending /\ c.op = "deleteCategory"
    /\ pending' = pending \ {c}
    /\ hist' = Resolved(c.n, "ok")
    /\ UNCHANGED <<userId, load, isLoading, colls, selectedProjectId, lastSelected,
                   seeded, toast, nextId, nops>>
    /\ renderTracker

\* deleteCategory's catch block: toast and revert to originalState.
deleteCategoryFail(c) ==
    /\ c \in pending /\ c.op = "deleteCategory"
    /\ toast' = showToast("Error deleting category. Reverting.", "error")
    /\ categories' = c.originalState
    /\ pending' = pending \ {c}
    /\ hist' = Resolved(c.n, "failed")
    /\ UNCHANGED <<userId, load, isLoading, projects, transactions, todos, followUps,
                   selectedProjectId, lastSelected, seeded, nextId, nops>>
    /\ renderTracker

\* batchUpdate(projectId, milestones, paymentMilestones) up to the await.
\* An unknown projectId returns without a trace.
batchUpdate(projectId, milestones, paymentMilestones) ==
    /\ nops < MaxOps
    /\ nops' = nops + 1
    /\ LET found == Find(projects, projectId)
       IN IF found = <<>>
          THEN /\ hist' = Invoked("batchUpdate", [id |-> projectId], "returned")
               /\ UNCHANGED <<userId, load, isLoading, colls, selectedProjectId,
                              lastSelected, seeded, toast, pending, nextId>>
               /\ renderTracker
          ELSE LET originalProject == found[1]
                   updatedProject ==
                       Spread(originalProject,
                              [milestones |-> milestones,
                               paymentMilestones |-> paymentMilestones,
                               updated_at |-> now])
               IN /\ projects' = MapReplace(projects, projectId, updatedProject)
                  /\ pending' = pending \cup
                        {[n |-> nops + 1, op |-> "batchUpdate",
                          projectId |-> projectId,
                          updatedProject |-> updatedProject,
                          originalProject |-> originalProject]}
                  /\ hist' = Invoked("batchUpdate", updatedProject, "pending")
                  /\ UNCHANGED <<userId, load, isLoading, transactions, todos,
                                 followUps, categories, selectedProjectId,
                                 lastSelected, seeded, toast, nextId>>
                  /\ renderTracker

\* Faulty variant: the server's project is dropped on success.
batchUpdateOk_Dropped(c) ==
    /\ c \in pending /\ c.op = "batchUpdate"
    /\ pending' = pending \ {c}
    /\ hist' = Resolved(c.n, "ok")
    /\ UNCHANGED <<userId, load, isLoading, colls, selectedProjectId, lastSelected,
                   seeded, toast, nextId, nops>>
    /\ renderTracker

\* batchUpdate after api.batchUpdateMilestones resolved.
batchUpdateOk(c) ==
    /\ c \in pending /\ c.op = "batchUpdate"
    /\ LET serverUpdatedProject == ServerReply(c.updatedProject, c.n)
       IN projects' = MapReplace(projects, c.projectId, serverUpdatedProject)
    /\ pending' = pending \ {c}
    /\ hist' = Resolved(c.n, "ok")
    /\ UNCHANGED <<userId, load, isLoading, transactions, todos, followUps,
                   categories, selectedProjectId, lastSelected, seeded, toast, nextId, nops>>
    /\ renderTracker

\* Faulty variant: the catch block puts back the milestones only.
batchUpdateFail_MilestonesOnly(c) ==
    /\ c \in pending /\ c.op = "batchUpdate"
    /\ toast' = showToast("Failed to update milestones. Reverting.", "error")
    /\ projects' = [i \in 1..Len(projects) |->
                      IF projects[i].id = c.projectId
                      THEN [projects[i] EXCEPT
                              !.milestones = c.originalProject.milestones]
                      ELSE projects[i]]
    /\ pending' = pending \ {c}
    /\ hist' = Resolved(c.n, "failed")
    /\ UNCHANGED <<userId, load, isLoading, transactions, todos, followUps,
                   categories, selectedProjectId, lastSelected, seeded, nextId, nops>>
    /\ renderTracker

\* Faulty variant: the catch block puts originalProject in every slot.
batchUpdateFail_EverySlot(c) ==
    /\ c \in pending /\ c.op = "batchUpdate"
    /\ toast' = showToast("Failed to update milestones. Reverting.", "error")
    /\ projects' = [i \in 1..Len(projects) |-> c.originalProject]
    /\ pending' = pending \ {c}
    /\ hist' = Resolved(c.n, "failed")
    /\ UNCHANGED <<userId, load, isLoading, transactions, todos, followUps,
                   categories, selectedProjectId, lastSelected, seeded, nextId, nops>>
    /\ renderTracker

\* batchUpdate's catch block: toast and put originalProject back in its slot.
batchUpdateFail(c) ==
    /\ c \in pending /\ c.op = "batchUpdate"
    /\ toast' = showToast("Failed to update milestones. Reverting.", "error")
    /\ projects' = MapReplace(projects, c.projectId, c.originalProject)
    /\ pending' = pending \ {c}
    /\ hist' = Resolved(c.n, "failed")
    /\ UNCHANGED <<userId, load, isLoading, transactions, todos, followUps,
                   categories, selectedProjectId, lastSelected, seeded, nextId, nops>>
    /\ renderTracker

\* updateProjectMilestones(projectId, milestones): batchUpdate with the
\* project's current payment milestones.
updateProjectMilestones(projectId, milestones) ==
    LET project == Find(projects, projectId)
    IN IF project = <<>>
       THEN /\ nops < MaxOps
            /\ nops' = nops + 1
            /\ hist' = Invoked("updateProjectMilestones", [id |-> projectId], "returned")
            /\ UNCHANGED <<userId, load, isLoading, colls, selectedProjectId,
                           lastSelected, seeded, toast, pending, nextId>>
            /\ renderTracker
       ELSE batchUpdate(projectId, milestones, project[1].paymentMilestones)

\* updatePaymentMilestones(projectId, paymentMilestones): batchUpdate with
\* the project's current milestones.
updatePaymentMilestones(projectId, paymentMilestones) ==
    LET project == Find(projects, projectId)
    IN IF project = <<>>
       THEN /\ nops < MaxOps
            /\ nops' = nops + 1
            /\ hist' = Invoked("updatePaymentMilestones", [id |-> projectId], "returned")
            /\ UNCHANGED <<userId, load, isLoading, colls, selectedProjectId,
                           lastSelected, seeded, toast, pending, nextId>>
            /\ renderTracker
       ELSE batchUpdate(projectId, project[1].milestones, paymentMilestones)

\* ------------------------------------------------------------- the callers
\* The children of AppProvider, the only callers of the store, are rendered
\* once isLoading is false; until then there is nobody to call it.
Rendered == ~isLoading

Ids(s) == IF Rendered THEN {s[i].id : i \in 1..Len(s)} ELSE {}

\* existing: null, or an entity of the collection.
Existing(s) == IF Rendered THEN {<<>>} \cup {<<s[i]>> : i \in 1..Len(s)} ELSE {}

\* The project form edits the selected project (ProjectDetail's onEdit) or
\* creates one (onNewProject).
ExistingProject ==
    {e \in Existing(projects) : e = <<>> \/ e[1].id = selectedProjectId}

\* The tabs of ProjectDetail list the selected project's items: those are
\* the ones a form is opened on or a delete is confirmed for.
Listed(s) == SelectSeq(s, LAMBDA e : e.project_id = selectedProjectId)

\* Partial data of a form: the edited content.
Data == {[val |-> v] : v \in Vals}

\* Partial data of a Transaction/Todo/FollowUp: a new one carries the
\* project_id the caller supplies (the selected project's, or none), an edit
\* of an existing one the content alone.
DataOf(existing) ==
    IF existing = <<>>
    THEN {[val |-> v, project_id |-> p] : v \in Vals, p \in {NoId, selectedProjectId}}
    ELSE Data

\* A milestone sequence is the set of its ticked boxes; handleToggle sends
\* the sequence with the first box flipped.
Toggle(m) == IF 1 \in m THEN m \ {1} ELSE m \cup {1}

\* The milestone trackers are rendered for the selected project.
Tracked == IF Rendered THEN Range(Find(projects, selectedProjectId)) ELSE {}

Next ==
    \/ mount
    \/ \E data \in ServerData : fetchDataOk(data)
    \/ fetchDataFail
    \/ seedCategoriesOk
    \/ seedCategoriesFail
    \/ \E existing \in ExistingProject : \E data \in Data :
          saveProject(data, existing)
    \/ \E id \in Ids(projects) \ {selectedProjectId} : selectProject(id)
    \/ \E id \in Ids(projects) : deleteProject(id)
    \/ \E existing \in Existing(Listed(transactions)) : \E data \in DataOf(existing) :
          saveTransaction(data, existing)
    \/ \E id \in Ids(Listed(transactions)) : deleteTransaction(id)
    \/ \E existing \in Existing(Listed(todos)) : \E data \in DataOf(existing) :
          saveTodo(data, existing)
    \/ \E id \in Ids(Listed(todos)) : deleteTodo(id)
    \/ \E existing \in Existing(Listed(followUps)) : \E data \in DataOf(existing) :
          saveFollowUp(data, existing)
    \/ \E id \in Ids(Listed(followUps)) : deleteFollowUp(id)
    \/ \E existing \in Existing(categories) : \E data \in Data :
          saveCategory(data, existing)
    \/ \E id \in Ids(categories) : deleteCategory(id)
    \/ \E p \in Tracked : updateProjectMilestones(p.id, Toggle(p.milestones))
    \/ \E p \in Tracked : updatePaymentMilestones(p.id, Toggle(p.paymentMilestones))
    \/ \E c \in pending : saveProjectOk(c)
    \/ \E c \in pending : saveProjectFail(c)
    \/ \E c \in pending : deleteProjectOk(c)
    \/ \E c \in pending : deleteProjectFail(c)
    \/ \E c \in pending : saveTransactionOk(c)
    \/ \E c \in pending : saveTransactionFail(c)
    \/ \E c \in pending : deleteTransactionOk(c)
    \/ \E c \in pending : deleteTransactionFail(c)
    \/ \E c \in pending : saveTodoOk(c)
    \/ \E c \in pending : saveTodoFail(c)
    \/ \E c \in pending : deleteTodoOk(c)
    \/ \E c \in pending : deleteTodoFail(c)
    \/ \E c \in pending : saveFollowUpOk(c)
    \/ \E c \in pending : saveFollowUpFail(c)
    \/ \E c \in pending : deleteFollowUpOk(c)
    \/ \E c \in pending : deleteFollowUpFail(c)
    \/ \E c \in pending : saveCategoryOk(c)
    \/ \E c \in pending : saveCategoryFail(c)
    \/ \E c \in pending : deleteCategoryOk(c)
    \/ \E c \in pending : deleteCategoryFail(c)
    \/ \E c \in pending : batchUpdateOk(c)
    \/ \E c \in pending : batchUpdateFail(c)

Spec == Init /\ [][Next]_vars

\* ============================================================== properties
SaveOps == {"saveProject", "saveTransaction", "saveTodo", "saveFollowUp", "saveCategory"}
DeleteOps == {"deleteProject", "deleteTransaction", "deleteTodo", "deleteFollowUp", "deleteCategory"}

\* Position in `colls` of the collection of an operation's own kind.
Own(op) ==
    CASE op \in {"saveProject", "deleteProject", "batchUpdate"} -> 1
      [] op \in {"saveTransaction", "deleteTransaction"} -> 2
      [] op \in {"saveTodo", "deleteTodo"} -> 3
      [] op \in {"saveFollowUp", "deleteFollowUp"} -> 4
      [] op \in {"saveCategory", "deleteCategory"} -> 5

Ops == 1..Len(hist)

\* This step is the invocation of operation n, which reaches its await.
Starts(n) ==
    /\ Len(hist') = Len(hist) + 1 /\ n = Len(hist') /\ hist'[n].out = "pending"
\* This step is the catch block / the continuation of operation n.
Fails(n) == n \in Ops /\ hist[n].out = "pending" /\ hist'[n].out = "failed"
Succeeds(n) == n \in Ops /\ hist[n].out = "pending" /\ hist'[n].out = "ok"

\* The suspended call of operation n.
CallOf(n) == CHOOSE c \in pending : c.n = n

ErrorRaised == toast'.show /\ toast'.type = "error"

\* C1: when a save (create or update) was the only operation in flight on
\* its collection from its invocation on and its remote call fails, the
\* collection after the rollback is the collection as it was immediately
\* before the save was invoked, and an error notification is raised.
C1_FailedSaveRestores ==
    [][\A n \in Ops :
         (Fails(n) /\ hist[n].op \in SaveOps /\ hist[n].solo)
         => /\ colls'[Own(hist[n].op)] = hist[n].pre[Own(hist[n].op)]
            /\ ErrorRaised]_vars

\* A save that was alone in flight has failed, and its collection is back
\* at what it was before the save.
C1_Witness ==
    \E n \in Ops :
        /\ hist[n].op \in SaveOps /\ hist[n].out = "failed" /\ hist[n].solo
        /\ pending = {}
        /\ n = Len(hist)
        /\ colls[Own(hist[n].op)] = hist[n].pre[Own(hist[n].op)]
        /\ toast.type = "error"

\* `post` is `pre` with exactly `item` inserted (at the end) or put in the
\* place of the entry of the same id.
InsertedOrReplaced(pre, item, post) ==
    IF \E i \in 1..Len(pre) : pre[i].id = item.id
    THEN /\ Len(post) = Len(pre)
         /\ \A i \in 1..Len(pre) :
                post[i] = IF pre[i].id = item.id THEN item ELSE pre[i]
    ELSE post = pre \o <<item>>

\* `post` is `pre` without the entries that satisfy Gone, the others kept in
\* their order.
RemovedExactly(pre, post, Gone(_)) ==
    /\ \A i \in 1..Len(post) : ~Gone(post[i])
    /\ post = SelectSeq(pre, LAMBDA e : ~Gone(e))

\* C3: for every save that passes its precondition checks, the synthesized
\* entity is in the collection (appended on create, in the place of the
\* same-id entry on update) in the state in which the remote call has been
\* issued and is still pending.
C3_OptimisticBeforeResolution ==
    [][\A n \in 1..Len(hist') :
         (Starts(n) /\ hist'[n].op \in SaveOps)
         => /\ \E c \in pending' : c.n = n /\ c.optimisticItem = hist'[n].arg
            /\ InsertedOrReplaced(colls[Own(hist'[n].op)], hist'[n].arg,
                                  colls'[Own(hist'[n].op)])]_vars

\* A create and an update are both pending and both synthesized entities
\* are in their collections.
C3_Witness ==
    /\ \E c \in pending :
          /\ c.op \in SaveOps /\ c.isNew
          /\ \E i \in 1..Len(colls[Own(c.op)]) : colls[Own(c.op)][i] = c.optimisticItem
    /\ \E c \in pending :
          /\ c.op \in SaveOps /\ ~c.isNew
          /\ \E i \in 1..Len(colls[Own(c.op)]) : colls[Own(c.op)][i] = c.optimisticItem

\* C5: delete(id) removes the entity from its collection in the step of the
\* invocation; deleteProject(id) removes, in that one step, the project and
\* every Transaction, Todo and FollowUp whose project_id is id, and nothing
\* else.
C5_DeleteIsOneStep ==
    [][\A n \in 1..Len(hist') :
         (Starts(n) /\ hist'[n].op \in DeleteOps)
         => LET id == hist'[n].arg.id
                IsIt(e) == e.id = id
                IsOfIt(e) == e.project_id = id
            IN /\ RemovedExactly(colls[Own(hist'[n].op)], colls'[Own(hist'[n].op)], IsIt)
               /\ hist'[n].op = "deleteProject"
                   => /\ RemovedExactly(transactions, transactions', IsOfIt)
                      /\ RemovedExactly(todos, todos', IsOfIt)
                      /\ RemovedExactly(followUps, followUps', IsOfIt)]_vars

\* A project that had a transaction and a to-do has just been deleted (the
\* call is pending): it and its dependents are gone.
C5_Witness ==
    \E n \in Ops :
        /\ hist[n].op = "deleteProject" /\ hist[n].out = "pending"
        /\ n = Len(hist)
        /\ \E i \in 1..Len(hist[n].pre[1]) : hist[n].pre[1][i].id = hist[n].arg.id
        /\ \E i \in 1..Len(hist[n].pre[2]) : hist[n].pre[2][i].project_id = hist[n].arg.id
        /\ \E i \in 1..Len(hist[n].pre[3]) : hist[n].pre[3][i].project_id = hist[n].arg.id
        /\ \A i \in 1..Len(projects) : projects[i].id # hist[n].arg.id
        /\ \A i \in 1..Len(transactions) : transactions[i].project_id # hist[n].arg.id
        /\ \A i \in 1..Len(todos) : todos[i].project_id # hist[n].arg.id

\* Operations a and b are saves of the same entity, and a was in flight
\* when b was invoked.
SameEntityOverlap(h, a, b) ==
    /\ a < b
    /\ h[a].op \in SaveOps /\ h[b].op = h[a].op
    /\ h[b].out # "returned"
    /\ a \in h[b].inflight
    /\ h[a].arg.id = h[b].arg.id

Holds(s, e) == \E i \in 1..Len(s) : s[i] = e

\* C6: if save a of an entity is in flight (and nothing else on that
\* collection has run since a started) when save b of the same entity
\* starts, the snapshot b captures contains a's optimistic entity; and if
\* a's remote call then fails while b is pending or confirmed, a's rollback
\* sets the collection to the snapshot taken before a ran, in which neither
\* b's optimistic entity nor b's server-confirmed entity is present.
C6_RollbackDiscardsLaterSave ==
    [][/\ \A b \in 1..Len(hist') : \A a \in Ops :
            (Starts(b) /\ SameEntityOverlap(hist', a, b) /\ hist[a].solo)
            => \E c \in pending' : c.n = b /\ Holds(c.originalState, hist[a].arg)
       /\ \A a \in Ops : \A b \in Ops :
            (Fails(a) /\ SameEntityOverlap(hist, a, b) /\ hist[b].out \in {"pending", "ok"})
            => /\ colls'[Own(hist[a].op)] = hist[a].pre[Own(hist[a].op)]
               /\ ~Holds(colls'[Own(hist[a].op)], hist[b].arg)
               /\ ~Holds(colls'[Own(hist[a].op)], ServerReply(hist[b].arg, b))]_vars

\* Save b started on top of a's pending change and was confirmed by the
\* server; a then failed, and the collection is a's snapshot again.
C6_Witness ==
    \E a \in Ops : \E b \in Ops :
        /\ SameEntityOverlap(hist, a, b)
        /\ Holds(hist[b].pre[Own(hist[b].op)], hist[a].arg)
        /\ hist[a].out = "failed" /\ hist[b].out = "ok"
        /\ \E i \in 1..Len(hist[a].pre[Own(hist[a].op)]) :
               hist[a].pre[Own(hist[a].op)][i].id = hist[a].arg.id
        /\ colls[Own(hist[a].op)] = hist[a].pre[Own(hist[a].op)]

\* C7: every save captures, at its invocation, its own snapshot of the
\* collection as it is then; when its remote call fails, overlapping with
\* other saves or not, its rollback sets the collection to exactly that
\* snapshot.
C7_OwnSnapshot ==
    [][/\ \A n \in 1..Len(hist') :
            (Starts(n) /\ hist'[n].op \in SaveOps)
            => \E c \in pending' :
                  c.n = n /\ c.originalState = colls[Own(hist'[n].op)]
       /\ \A n \in Ops :
            (Fails(n) /\ hist[n].op \in SaveOps)
            => /\ colls'[Own(hist[n].op)] = hist[n].pre[Own(hist[n].op)]
               /\ colls'[Own(hist[n].op)] = CallOf(n).originalState]_vars

\* Two overlapping saves on one collection, with different snapshots, have
\* both failed; the collection is the snapshot of the later one.
C7_Witness ==
    \E a \in Ops : \E b \in Ops :
        /\ a < b /\ a \in hist[b].inflight
        /\ hist[a].op \in SaveOps /\ hist[b].op \in SaveOps
        /\ Own(hist[a].op) = Own(hist[b].op)
        /\ hist[a].out = "failed" /\ hist[b].out = "failed"
        /\ hist[a].pre[Own(hist[a].op)] # hist[b].pre[Own(hist[b].op)]
        /\ colls[Own(hist[b].op)] = hist[b].pre[Own(hist[b].op)]

\* C8 (as stated): at every state between the invocation of a save and the
\* resolution of its remote call, the collection equals the pre-operation
\* snapshot or the post-optimistic snapshot.
C8_PreOrPostSnapshot ==
    \A c \in pending :
        c.op \in SaveOps
        => LET pre == hist[c.n].pre[Own(c.op)]
           IN \/ colls[Own(c.op)] = pre
              \/ InsertedOrReplaced(pre, c.optimisticItem, colls[Own(c.op)])

\* C8 (amended): at every state between the invocation of a save and the
\* resolution of its remote call, as long as no other operation on that
\* collection has been in flight since the save was invoked, the collection
\* equals the post-optimistic snapshot: the pre-operation snapshot with
\* exactly the synthesized entity inserted or replaced.
C8_PostSnapshotWhileAlone ==
    \A c \in pending :
        (c.op \in SaveOps /\ hist[c.n].solo)
        => InsertedOrReplaced(hist[c.n].pre[Own(c.op)], c.optimisticItem,
                              colls[Own(c.op)])

\* An update of one of two projects is pending, alone on the collection.
C8_Witness ==
    \E c \in pending :
        /\ c.op = "saveProject" /\ ~c.isNew /\ hist[c.n].solo
        /\ Len(projects) > 1
        /\ projects # hist[c.n].pre[1]
        /\ Holds(projects, c.optimisticItem)

\* The entity the server has confirmed for save n.
Confirmed(n) == ServerReply(hist[n].arg, n)

\* s with the confirmed entity e in the place of the entry of its id, or at
\* the end if there is none.
Upsert(s, e) ==
    IF \E i \in 1..Len(s) : s[i].id = e.id
    THEN [i \in 1..Len(s) |-> IF s[i].id = e.id THEN e ELSE s[i]]
    ELSE Append(s, e)

\* The five collections after the first n operations of the history have
\* been applied one after the other, each with what the server confirmed,
\* to the collections the first operation found.
RECURSIVE Sequential(_)
Sequential(n) ==
    IF n = 0 THEN hist[1].pre
    ELSE LET s == Sequential(n - 1)
             h == hist[n]
             IsIt(e) == e.id = h.arg.id
             IsOfIt(e) == e.project_id = h.arg.id
         IN IF h.op \in SaveOps /\ h.out # "returned"
            THEN [s EXCEPT ![Own(h.op)] = Upsert(@, Confirmed(n))]
            ELSE IF h.op = "deleteProject"
            THEN << SelectSeq(s[1], LAMBDA e : ~IsIt(e)),
                    SelectSeq(s[2], LAMBDA e : ~IsOfIt(e)),
                    SelectSeq(s[3], LAMBDA e : ~IsOfIt(e)),
                    SelectSeq(s[4], LAMBDA e : ~IsOfIt(e)),
                    s[5] >>
            ELSE IF h.op \in DeleteOps
            THEN [s EXCEPT ![Own(h.op)] = SelectSeq(@, LAMBDA e : ~IsIt(e))]
            ELSE s

\* Every operation of the history is a save or a delete whose remote call
\* has succeeded, and nothing is in flight.
AllSucceeded ==
    /\ hist # <<>>
    /\ pending = {}
    /\ \A n \in Ops : hist[n].op \in SaveOps \cup DeleteOps /\ hist[n].out = "ok"

\* C9: after a sequence of saves and deletes whose remote calls have all
\* succeeded, whatever the interleaving of invocations and responses, every
\* collection holds, id by id, what the sequential application of the
\* server-confirmed entities gives.
C9_EqualsSequentialApplication ==
    AllSucceeded
    => \A k \in 1..5 : Range(colls[k]) = Range(Sequential(Len(hist))[k])

\* --------------------------------------- the store without a user identifier
\* The operations of the store as they behave while userId is still null
\* (the state the provider is constructed in, before the mount effect has
\* run): called directly through the context value, with the identifiers
\* of entities the caller names.
Named == {1, 2}

NextNoSession ==
    \/ \E data \in Data : saveProject(data, <<>>)
    \/ \E data \in Data : saveTransaction(Spread(data, [project_id |-> 1]), <<>>)
    \/ \E data \in Data : saveTodo(Spread(data, [project_id |-> 1]), <<>>)
    \/ \E data \in Data : saveFollowUp(Spread(data, [project_id |-> 1]), <<>>)
    \/ \E data \in Data : saveCategory(data, <<>>)
    \/ \E id \in Named : deleteProject(id)
    \/ \E id \in Named : deleteTransaction(id)
    \/ \E id \in Named : deleteTodo(id)
    \/ \E id \in Named : deleteFollowUp(id)
    \/ \E id \in Named : deleteCategory(id)
    \/ \E id \in Named : updateProjectMilestones(id, {1})
    \/ \E id \in Named : updatePaymentMilestones(id, {1})
    \/ \E c \in pending : deleteProjectOk(c)
    \/ \E c \in pending : deleteProjectFail(c)
    \/ \E c \in pending : deleteTransactionOk(c)
    \/ \E c \in pending : deleteTransactionFail(c)
    \/ \E c \in pending : deleteTodoOk(c)
    \/ \E c \in pending : deleteTodoFail(c)
    \/ \E c \in pending : deleteFollowUpOk(c)
    \/ \E c \in pending : deleteFollowUpFail(c)
    \/ \E c \in pending : deleteCategoryOk(c)
    \/ \E c \in pending : deleteCategoryFail(c)

SpecNoSession == Init /\ [][NextNoSession]_vars

C2_ServerEntityReplaces ==
    [][\A n \in Ops :
         (Succeeds(n) /\ hist[n].op \in SaveOps)
         => LET before == colls[Own(hist[n].op)]
                after == colls'[Own(hist[n].op)]
            IN /\ Len(after) = Len(before)
               /\ \A i \in 1..Len(before) :
                     after[i] = IF before[i].id = hist[n].arg.id
                                THEN Confirmed(n) ELSE before[i]]_vars

\* C4: when the remote call of a delete fails, with no other operation in
\* flight on its collections since it was invoked, every collection the
\* delete changed is as it was just before the delete was invoked (for a
\* project: projects, transactions, todos and follow-ups, all four), and an
\* error notification is raised.
C4_FailedDeleteRestoresAll ==
    [][\A n \in Ops :
         (Fails(n) /\ hist[n].op \in DeleteOps /\ hist[n].solo)
         => /\ \A k \in (IF hist[n].op = "deleteProject" THEN 1..4 ELSE {Own(hist[n].op)}) :
                 colls'[k] = hist[n].pre[k]
            /\ ErrorRaised]_vars

\* ------------------------------------------------ the store of src/src/App.tsx
\* App.tsx holds another version of AppProvider.  Its saves have a create
\* path (revert by filtering the new entity out) and an update path (revert
\* to a snapshot, the server's answer not used); its fetchData seeds the
\* default categories whenever the server has none.

\* fetchData of App.tsx after api.fetchAllData resolved with `data`.  With no
\* categories on the server the defaults are set and saved; the promise of
\* the saves is not awaited.
App_fetchDataOk(data) ==
    /\ [n |-> 0, op |-> "fetchData"] \in pending
    /\ LET seeding == ~(Len(data.categories) > 0)
           newCategories ==
               [i \in 1..Len(defaultCategoryNames) |->
                   [id |-> nextId + i - 1, uid |-> userId,
                    val |-> defaultCategoryNames[i],
                    created_at |-> now, updated_at |-> now, server |-> 0]]
       IN /\ projects' = data.projects
          /\ transactions' = data.transactions
          /\ todos' = data.todos
          /\ followUps' = data.followups
          /\ categories' = IF seeding THEN newCategories ELSE data.categories
          /\ nextId' = IF seeding THEN nextId + Len(defaultCategoryNames) ELSE nextId
          /\ pending' = (pending \ {[n |-> 0, op |-> "fetchData"]})
                          \cup (IF seeding THEN {[n |-> 0, op |-> "seedCategories"]} ELSE {})
          /\ load' = [fetch |-> "ok", seed |-> IF seeding THEN "pending" ELSE load.seed]
          /\ selectedProjectId' =
                IF lastSelected # NoId /\ \E i \in 1..Len(data.projects) : data.projects[i].id = lastSelected
                THEN lastSelected
                ELSE IF Len(data.projects) > 0 THEN data.projects[1].id
                ELSE selectedProjectId
    /\ isLoading' = FALSE
    /\ UNCHANGED <<userId, lastSelected, seeded, toast, nops, hist>>
    /\ renderTracker

\* Promise.all(newCategories.map(cat => api.saveCategory(cat, true)))
\* fulfilled in App.tsx: no handler is attached to this outcome.
App_seedCategoriesOk ==
    /\ [n |-> 0, op |-> "seedCategories"] \in pending
    /\ pending' = pending \ {[n |-> 0, op |-> "seedCategories"]}
    /\ load' = [load EXCEPT !.seed = "ok"]
    /\ UNCHANGED <<userId, isLoading, colls, selectedProjectId, lastSelected,
                   seeded, toast, nextId, nops, hist>>
    /\ renderTracker

\* ... .catch(err => console.error(...)) in App.tsx: the console is the
\* only place the failure goes to.
App_seedCategoriesFail ==
    /\ [n |-> 0, op |-> "seedCategories"] \in pending
    /\ pending' = pending \ {[n |-> 0, op |-> "seedCategories"]}
    /\ load' = [load EXCEPT !.seed = "failed"]
    /\ UNCHANGED <<userId, isLoading, colls, selectedProjectId, lastSelected,
                   seeded, toast, nextId, nops, hist>>
    /\ renderTracker

\* fetchData's catch block in App.tsx.
App_fetchDataFail ==
    /\ [n |-> 0, op |-> "fetchData"] \in pending
    /\ pending' = pending \ {[n |-> 0, op |-> "fetchData"]}
    /\ toast' = showToast("Failed to load data from server.", "error")
    /\ isLoading' = FALSE
    /\ load' = [load EXCEPT !.fetch = "failed"]
    /\ UNCHANGED <<userId, colls, selectedProjectId, lastSelected, seeded, nextId, nops, hist>>
    /\ renderTracker

\* saveProject(data, existing) of App.tsx up to the await of either path.
App_saveProject(data, existing) ==
    /\ nops < MaxOps
    /\ IF userId = NoUser
       THEN ReturnWithToast("saveProject", "User ID not found.")
       ELSE LET isNew == existing = <<>>
                newItem == Spread(Spread(DEFAULT_PROJECT, data),
                                  [id |-> nextId, uid |-> userId,
                                   created_at |-> now, updated_at |-> now])
                updatedItem == Spread(Spread(existing[1], data), [updated_at |-> now])
                originalProjects == projects
            IN /\ IF isNew
                  THEN /\ projects' = Append(projects, newItem)
                       /\ pending' = pending \cup
                             {SaveCall("saveProject", TRUE, newItem, <<>>)}
                       /\ hist' = Invoked("saveProject", newItem, "pending")
                  ELSE /\ projects' = MapReplace(projects, updatedItem.id, updatedItem)
                       /\ pending' = pending \cup
                             {SaveCall("saveProject", FALSE, updatedItem, originalProjects)}
                       /\ hist' = Invoked("saveProject", updatedItem, "pending")
               /\ nextId' = IF isNew THEN nextId + 1 ELSE nextId
               /\ nops' = nops + 1
               /\ UNCHANGED <<userId, load, isLoading, transactions, todos, followUps,
                              categories, selectedProjectId, lastSelected,
                              seeded, toast>>
               /\ renderTracker

\* After api.saveProject resolved: the create path puts savedItem in the
\* place of newItem; the update path has nothing after its await.
App_saveProjectOk(c) ==
    /\ c \in pending /\ c.op = "saveProject"
    /\ LET savedItem == ServerReply(c.optimisticItem, c.n)
       IN projects' = IF c.isNew
                      THEN MapReplace(projects, c.optimisticItem.id, savedItem)
                      ELSE projects
    /\ pending' = pending \ {c}
    /\ hist' = Resolved(c.n, "ok")
    /\ UNCHANGED <<userId, load, isLoading, transactions, todos, followUps,
                   categories, selectedProjectId, lastSelected, seeded, toast, nextId, nops>>
    /\ renderTracker

\* The catch blocks: the create path filters newItem out, the update path
\* sets the collection to originalProjects.
App_saveProjectFail(c) ==
    /\ c \in pending /\ c.op = "saveProject"
    /\ toast' = showToast(IF c.isNew THEN "Error saving project."
                          ELSE "Error updating project. Reverting.", "error")
    /\ projects' = IF c.isNew THEN FilterId(projects, c.optimisticItem.id)
                   ELSE c.originalState
    /\ pending' = pending \ {c}
    /\ hist' = Resolved(c.n, "failed")
    /\ UNCHANGED <<userId, load, isLoading, transactions, todos, followUps,
                   categories, selectedProjectId, lastSelected, seeded, nextId, nops>>
    /\ renderTracker

\* saveTransaction(data, existing) of App.tsx up to the await of either path.
App_saveTransaction(data, existing) ==
    /\ nops < MaxOps
    /\ IF userId = NoUser
       THEN ReturnWithToast("saveTransaction", "User ID not found.")
       ELSE IF existing = <<>> /\ data.project_id = NoId
       THEN ReturnWithToast("saveTransaction", "Cannot create transaction without a project.")
       ELSE LET isNew == existing = <<>>
                newItem == Spread(Spread(DEFAULT_TRANSACTION, data),
                                  [project_id |-> data.project_id,
                                   id |-> nextId, uid |-> userId,
                                   created_at |-> now, updated_at |-> now])
                updatedItem == Spread(Spread(existing[1], data), [updated_at |-> now])
                originalState == transactions
            IN /\ IF isNew
                  THEN /\ transactions' = Append(transactions, newItem)
                       /\ pending' = pending \cup
                             {SaveCall("saveTransaction", TRUE, newItem, <<>>)}
                       /\ hist' = Invoked("saveTransaction", newItem, "pending")
                  ELSE /\ transactions' = MapReplace(transactions, updatedItem.id, updatedItem)
                       /\ pending' = pending \cup
                             {SaveCall("saveTransaction", FALSE, updatedItem, originalState)}
                       /\ hist' = Invoked("saveTransaction", updatedItem, "pending")
               /\ nextId' = IF isNew THEN nextId + 1 ELSE nextId
               /\ nops' = nops + 1
               /\ UNCHANGED <<userId, load, isLoading, projects, todos, followUps,
                              categories, selectedProjectId, lastSelected,
                              seeded, toast>>
               /\ renderTracker

\* After api.saveTransaction resolved.
App_saveTransactionOk(c) ==
    /\ c \in pending /\ c.op = "saveTransaction"
    /\ LET savedItem == ServerReply(c.optimisticItem, c.n)
       IN transactions' = IF c.isNew
                          THEN MapReplace(transactions, c.optimisticItem.id, savedItem)
                          ELSE transactions
    /\ pending' = pending \ {c}
    /\ hist' = Resolved(c.n, "ok")
    /\ UNCHANGED <<userId, load, isLoading, projects, todos, followUps,
                   categories, selectedProjectId, lastSelected, seeded, toast, nextId, nops>>
    /\ renderTracker

\* The catch blocks of saveTransaction.
App_saveTransactionFail(c) ==
    /\ c \in pending /\ c.op = "saveTransaction"
    /\ toast' = showToast(IF c.isNew THEN "Error saving transaction."
                          ELSE "Error updating transaction. Reverting.", "error")
    /\ transactions' = IF c.isNew THEN FilterId(transactions, c.optimisticItem.id)
                       ELSE c.originalState
    /\ pending' = pending \ {c}
    /\ hist' = Resolved(c.n, "failed")
    /\ UNCHANGED <<userId, load, isLoading, projects, todos, followUps,
                   categories, selectedProjectId, lastSelected, seeded, nextId, nops>>
    /\ renderTracker

NextApp ==
    \/ mount
    \/ \E data \in ServerData : App_fetchDataOk(data)
    \/ App_fetchDataFail
    \/ App_seedCategoriesOk
    \/ App_seedCategoriesFail
    \/ \E existing \in ExistingProject : \E data \in Data :
          App_saveProject(data, existing)
    \/ \E id \in Ids(projects) \ {selectedProjectId} : selectProject(id)
    \/ \E existing \in Existing(Listed(transactions)) : \E data \in DataOf(existing) :
          App_saveTransaction(data, existing)
    \/ \E c \in pending : App_saveProjectOk(c)
    \/ \E c \in pending : App_saveProjectFail(c)
    \/ \E c \in pending : App_saveTransactionOk(c)
    \/ \E c \in pending : App_saveTransactionFail(c)

SpecApp == Init /\ [][NextApp]_vars

\* --------------------------------------------- the store of src/unnamed/part_000
\* part_000 holds a version of AppProvider with one generic save,
\* createOrUpdateItem(type, itemData, existingItem), and one generic
\* delete, deleteItem(type, id), over
\*   stateSetters = {projects, transactions, todos, followups, categories}.
Types == {"projects", "transactions", "todos", "followups", "categories"}

\* The collection stateSetters[type] sets.
StateOf(type) ==
    CASE type = "projects" -> projects
      [] type = "transactions" -> transactions
      [] type = "todos" -> todos
      [] type = "followups" -> followUps
      [] type = "categories" -> categories

\* setState(value) for setState = stateSetters[type]: the other four
\* collections keep their value.
SetState(type, value) ==
    /\ projects' = IF type = "projects" THEN value ELSE projects
    /\ transactions' = IF type = "transactions" THEN value ELSE transactions
    /\ todos' = IF type = "todos" THEN value ELSE todos
    /\ followUps' = IF type = "followups" THEN value ELSE followUps
    /\ categories' = IF type = "categories" THEN value ELSE categories

\* The names under which the history records the generic operations: those
\* of the dedicated functions of the kind.
SaveOf(type) ==
    CASE type = "projects" -> "saveProject"
      [] type = "transactions" -> "saveTransaction"
      [] type = "todos" -> "saveTodo"
      [] type = "followups" -> "saveFollowUp"
      [] type = "categories" -> "saveCategory"

DeleteOf(type) ==
    CASE type = "projects" -> "deleteProject"
      [] type = "transactions" -> "deleteTransaction"
      [] type = "todos" -> "deleteTodo"
      [] type = "followups" -> "deleteFollowUp"
      [] type = "categories" -> "deleteCategory"

\* fetchData of part_000 after api.fetchAllData resolved: no seeding.
Part_fetchDataOk(data) ==
    /\ [n |-> 0, op |-> "fetchData"] \in pending
    /\ projects' = data.projects
    /\ transactions' = data.transactions
    /\ todos' = data.todos
    /\ followUps' = data.followups
    /\ categories' = data.categories
    /\ selectedProjectId' =
          IF lastSelected # NoId /\ \E i \in 1..Len(data.projects) : data.projects[i].id = lastSelected
          THEN lastSelected
          ELSE IF Len(data.projects) > 0 THEN data.projects[1].id
          ELSE selectedProjectId
    /\ pending' = pending \ {[n |-> 0, op |-> "fetchData"]}
    /\ isLoading' = FALSE
    /\ load' = [load EXCEPT !.fetch = "ok"]
    /\ UNCHANGED <<userId, lastSelected, seeded, toast, nextId, nops, hist>>
    /\ renderTracker

\* fetchData's catch block in part_000.
Part_fetchDataFail ==
    /\ [n |-> 0, op |-> "fetchData"] \in pending
    /\ pending' = pending \ {[n |-> 0, op |-> "fetchData"]}
    /\ toast' = showToast("Failed to load data from server.", "error")
    /\ isLoading' = FALSE
    /\ load' = [load EXCEPT !.fetch = "failed"]
    /\ UNCHANGED <<userId, colls, selectedProjectId, lastSelected, seeded, nextId, nops, hist>>
    /\ renderTracker

\* createOrUpdateItem(type, itemData, existingItem) up to the await.
createOrUpdateItem(type, itemData, existingItem) ==
    /\ nops < MaxOps
    /\ nops' = nops + 1
    /\ IF userId = NoUser
       THEN /\ hist' = Invoked(SaveOf(type), <<>>, "returned")
            /\ UNCHANGED <<userId, load, isLoading, colls, selectedProjectId,
                           lastSelected, seeded, toast, pending, nextId>>
            /\ renderTracker
       ELSE LET isNew == existingItem = <<>>
                fullItemData ==
                    Spread(itemData,
                           [id |-> IF isNew THEN nextId ELSE existingItem[1].id,
                            uid |-> userId,
                            created_at |-> IF isNew THEN now ELSE existingItem[1].created_at,
                            updated_at |-> now])
            IN /\ SetState(type, IF isNew THEN Append(StateOf(type), fullItemData)
                                 ELSE MapReplace(StateOf(type), fullItemData.id, fullItemData))
               /\ pending' = pending \cup
                     {[n |-> nops + 1, op |-> "createOrUpdateItem", type |-> type,
                       isNew |-> isNew, fullItemData |-> fullItemData,
                       existingItem |-> existingItem]}
               /\ nextId' = IF isNew THEN nextId + 1 ELSE nextId
               /\ hist' = Invoked(SaveOf(type), fullItemData, "pending")
               /\ UNCHANGED <<userId, load, isLoading, selectedProjectId, lastSelected,
                              seeded, toast>>
               /\ renderTracker

\* createOrUpdateItem after api.saveItem resolved.
createOrUpdateItemOk(c) ==
    /\ c \in pending /\ c.op = "createOrUpdateItem"
    /\ LET savedItem == ServerReply(c.fullItemData, c.n)
       IN SetState(c.type, MapReplace(StateOf(c.type), savedItem.id, savedItem))
    /\ pending' = pending \ {c}
    /\ hist' = Resolved(c.n, "ok")
    /\ UNCHANGED <<userId, load, isLoading, selectedProjectId, lastSelected, seeded,
                   toast, nextId, nops>>
    /\ renderTracker

\* createOrUpdateItem's catch block: take the new item out, or put
\* existingItem back in its slot.
createOrUpdateItemFail(c) ==
    /\ c \in pending /\ c.op = "createOrUpdateItem"
    /\ toast' = showToast(<<"Error saving ", c.type, ". Reverting changes.">>, "error")
    /\ SetState(c.type,
                IF c.isNew THEN FilterId(StateOf(c.type), c.fullItemData.id)
                ELSE MapReplace(StateOf(c.type), c.existingItem[1].id, c.existingItem[1]))
    /\ pending' = pending \ {c}
    /\ hist' = Resolved(c.n, "failed")
    /\ UNCHANGED <<userId, load, isLoading, selectedProjectId, lastSelected, seeded,
                   nextId, nops>>
    /\ renderTracker

\* deleteItem(type, id) up to the await: originalState is the collection of
\* that type alone; a project takes its dependents along.
deleteItem(type, id) ==
    /\ nops < MaxOps
    /\ LET originalState == StateOf(type)
           remaining == FilterId(projects, id)
       IN /\ IF type = "projects"
             THEN /\ projects' = FilterId(projects, id)
                  /\ transactions' = FilterProject(transactions, id)
                  /\ todos' = FilterProject(todos, id)
                  /\ followUps' = FilterProject(followUps, id)
                  /\ categories' = categories
                  /\ IF selectedProjectId = id
                     THEN setSelectedProjectId(IF Len(remaining) > 0 THEN remaining[1].id ELSE NoId)
                     ELSE UNCHANGED <<selectedProjectId, lastSelected>>
             ELSE /\ SetState(type, FilterId(StateOf(type), id))
                  /\ UNCHANGED <<selectedProjectId, lastSelected>>
          /\ pending' = pending \cup
                {[n |-> nops + 1, op |-> "deleteItem", type |-> type, id |-> id,
                  originalState |-> originalState]}
    /\ nops' = nops + 1
    /\ hist' = Invoked(DeleteOf(type), [id |-> id], "pending")
    /\ UNCHANGED <<userId, load, isLoading, seeded, toast, nextId>>
    /\ renderTracker

\* deleteItem after api.deleteItemById resolved: nothing left to do.
deleteItemOk(c) ==
    /\ c \in pending /\ c.op = "deleteItem"
    /\ pending' = pending \ {c}
    /\ hist' = Resolved(c.n, "ok")
    /\ UNCHANGED <<userId, load, isLoading, colls, selectedProjectId, lastSelected,
                   seeded, toast, nextId, nops>>
    /\ renderTracker

\* deleteItem's catch block: toast and setState(originalState), for the
\* collection of that type.
deleteItemFail(c) ==
    /\ c \in pending /\ c.op = "deleteItem"
    /\ toast' = showToast("Error deleting. Reverting.", "error")
    /\ SetState(c.type, c.originalState)
    /\ pending' = pending \ {c}
    /\ hist' = Resolved(c.n, "failed")
    /\ UNCHANGED <<userId, load, isLoading, selectedProjectId, lastSelected, seeded,
                   nextId, nops>>
    /\ renderTracker

\* What the callers pass: the form of the selected project or of one of its
\* listed items (or of a category), filled in; the delete confirmation of
\* the selected project, of a listed item or of a category.
FormOf(type) ==
    IF type = "projects" THEN ExistingProject
    ELSE IF type = "categories" THEN Existing(categories)
    ELSE Existing(Listed(StateOf(type)))

FormData(type, existingItem) ==
    IF existingItem # <<>> THEN {Spread(existingItem[1], d) : d \in Data}
    ELSE IF type = "projects" THEN {Spread(DEFAULT_PROJECT, d) : d \in Data}
    ELSE IF type = "categories" THEN {Spread(DEFAULT_CATEGORY, d) : d \in Data}
    ELSE {Spread(Spread(DEFAULT_TODO, d), [project_id |-> selectedProjectId]) : d \in Data}

Deletable(type) ==
    IF type = "projects" THEN Ids(projects) \cap {selectedProjectId}
    ELSE IF type = "categories" THEN Ids(categories)
    ELSE Ids(Listed(StateOf(type)))

NextPart ==
    \/ mount
    \/ \E data \in ServerData : Part_fetchDataOk(data)
    \/ Part_fetchDataFail
    \/ \E type \in Types : \E existingItem \in FormOf(type) :
          \E itemData \in FormData(type, existingItem) :
             createOrUpdateItem(type, itemData, existingItem)
    \/ \E id \in Ids(projects) \ {selectedProjectId} : selectProject(id)
    \/ \E type \in Types : \E id \in Deletable(type) : deleteItem(type, id)
    \/ \E c \in pending : createOrUpdateItemOk(c)
    \/ \E c \in pending : createOrUpdateItemFail(c)
    \/ \E c \in pending : deleteItemOk(c)
    \/ \E c \in pending : deleteItemFail(c)

SpecPart == Init /\ [][NextPart]_vars
\* ------------------------------------------------------------ claims 11 to 20
\* The saves of the kinds that belong to a project.
DependentSaves == {"saveTransaction", "saveTodo", "saveFollowUp"}

\* The operation invoked in this step, as the history numbers it.
InvokedNow(n) == Len(hist') = Len(hist) + 1 /\ n = Len(hist')

\* C11: creating a Transaction, Todo or FollowUp without a project
\* identifier raises an error notification and aborts before any mutation:
\* no collection changes and no remote call is issued; a save of these
\* kinds that does go on carries a project identifier.
C11_NoProjectNoMutation ==
    [][\A n \in 1..Len(hist') :
         (InvokedNow(n) /\ hist'[n].op \in DependentSaves /\ userId # NoUser)
         => IF hist'[n].out = "returned"
            THEN /\ ErrorRaised
                 /\ toast'.message \in
                      {"Cannot create transaction without a project.",
                       "Cannot create to-do without a project.",
                       "Cannot create follow-up without a project."}
                 /\ colls' = colls
                 /\ pending' = pending
            ELSE hist'[n].arg.project_id # NoId]_vars

\* A transaction without a project has just been refused: the collections
\* are as they were and nothing is in flight.
C11_Witness ==
    \E n \in Ops :
        /\ n = Len(hist)
        /\ hist[n].op = "saveTransaction" /\ hist[n].out = "returned"
        /\ userId = TheUser
        /\ toast = showToast("Cannot create transaction without a project.", "error")
        /\ colls = hist[n].pre
        /\ pending = {}
\* C12: errors are never retried and never swallowed: an operation has at
\* most one remote call, a call that has resolved is never issued again,
\* and every failed remote call, the one of the initial load and the one
\* of the default-category seeding included, raises an error notification
\* in the step that handles the failure.
C12_EveryFailureNotified ==
    [][/\ \A n \in Ops :
            /\ Cardinality({c \in pending' : c.n = n}) <= 1
            /\ hist[n].out # "pending" => ~ \E c \in pending' : c.n = n
            /\ Fails(n) => ErrorRaised
       /\ (load.fetch = "pending" /\ load'.fetch = "failed")
             => ErrorRaised /\ toast' # toast
       /\ (load.seed = "pending" /\ load'.seed = "failed")
             => ErrorRaised /\ toast' # toast]_vars
\* s with e in the slot of every entry whose id is e's.
InSlot(s, e) == [i \in 1..Len(s) |-> IF s[i].id = e.id THEN e ELSE s[i]]

\* The project of the given id as the collections `c` hold it.
ProjectIn(c, id) == Find(c[1], id)[1]

\* C13: a batch update replaces both milestone sequences of the named
\* project and refreshes updated_at in the one step of its invocation,
\* before the remote call resolves, and issues exactly one remote call, which
\* carries the two sequences; on success the project's entry is replaced
\* by the project the server returned, on failure by the project record
\* captured at the invocation.
C13_BatchUpdateIsOneUnit ==
    [][\A n \in 1..Len(hist') :
         hist'[n].op = "batchUpdate" /\ hist'[n].out # "returned" =>
           LET updated == hist'[n].arg
               id == updated.id
           IN /\ Starts(n) =>
                   LET original == ProjectIn(colls, id)
                   IN /\ updated =
                           Spread(original,
                                  [milestones |-> updated.milestones,
                                   paymentMilestones |-> updated.paymentMilestones,
                                   updated_at |-> now])
                      /\ projects' = InSlot(projects, updated)
                      /\ \E c \in pending' :
                            /\ pending' = pending \cup {c} /\ c \notin pending
                            /\ c.n = n
                            /\ c.updatedProject.milestones = updated.milestones
                            /\ c.updatedProject.paymentMilestones
                                  = updated.paymentMilestones
              /\ Succeeds(n) => projects' = InSlot(projects, Confirmed(n))
              /\ Fails(n) => projects' = InSlot(projects, ProjectIn(hist[n].pre, id))
              /\ (Succeeds(n) \/ Fails(n)) =>
                   /\ pending' = pending \ {CallOf(n)}
                   /\ <<transactions, todos, followUps, categories>>'
                        = <<transactions, todos, followUps, categories>>]_vars

\* A batch update that changed the milestones has been confirmed and the
\* project is the one the server returned; another one has failed.
C13_Witness ==
    \E n \in Ops :
        /\ hist[n].op = "batchUpdate" /\ hist[n].out = "ok"
        /\ hist[n].arg.milestones # ProjectIn(hist[n].pre, hist[n].arg.id).milestones
        /\ Find(projects, hist[n].arg.id) = <<Confirmed(n)>>
        /\ \E m \in Ops : hist[m].op = "batchUpdate" /\ hist[m].out = "failed"
\* Both milestone sequences of the project of batch update n, where the
\* collection `s` still has it, are the ones it had before n was invoked.
BothPrior(s, n) ==
    LET id == hist[n].arg.id
        prior == ProjectIn(hist[n].pre, id)
    IN \A i \in 1..Len(s) :
          s[i].id = id =>
             /\ s[i].milestones = prior.milestones
             /\ s[i].paymentMilestones = prior.paymentMilestones

C15_ProjectReferenceExists ==
    \A s \in {transactions, todos, followUps} :
        \A i \in 1..Len(s) :
            \E j \in 1..Len(projects) : projects[j].id = s[i].project_id
\* The entities of the five collections `c`; identifiers are unique over
\* all of them.
Entities(c) == UNION {Range(c[k]) : k \in 1..Len(c)}

\* C16: created_at never changes once an entity exists: no step, be it an
\* update save, a confirmation, a rollback or a milestone batch update,
\* changes the created_at of an entity that stays in the collections;
\* every save and every batch update puts the entity in the collection
\* with updated_at set to the time of the invocation; and a created entity
\* has created_at equal to updated_at.
C16_Timestamps ==
    [][/\ \A e \in Entities(colls) : \A f \in Entities(colls') :
            f.id = e.id => f.created_at = e.created_at
       /\ \A n \in 1..Len(hist') :
            (Starts(n) /\ hist'[n].op \in SaveOps \cup {"batchUpdate"}) =>
               LET item == hist'[n].arg
                   isNew == \A e \in Entities(colls) : e.id # item.id
               IN /\ item \in Entities(colls')
                  /\ item.updated_at = now
                  /\ isNew => item.created_at = item.updated_at
                  /\ ~isNew => \E e \in Entities(colls) :
                                  e.id = item.id /\ e.created_at = item.created_at]_vars

\* An entity created by one save has been updated by a later one: it has
\* the creation time of the first and the update time of the second.
C16_Witness ==
    \E n \in Ops : \E m \in Ops :
        /\ n < m
        /\ hist[n].op \in SaveOps /\ hist[m].op \in SaveOps
        /\ hist[n].out = "ok" /\ hist[m].out = "ok"
        /\ hist[n].arg.created_at = hist[n].arg.updated_at
        /\ hist[m].arg.id = hist[n].arg.id
        /\ hist[m].arg.created_at = hist[n].arg.created_at
        /\ hist[m].arg.updated_at > hist[n].arg.updated_at
        /\ Confirmed(m) \in Entities(colls)
\* Partial data that names an owner of its own.
OwnedData == {[val |-> v, uid |-> u] : v \in Vals, u \in {"u2", NoUser}}

\* C17: in every state of a session every entity of the five collections
\* has the active user's identifier as its uid, and the entity a save
\* would create here has it too, whatever uid the supplied data carries.
C17_OwnedByActiveUser ==
    userId # NoUser =>
        /\ \A e \in Entities(colls) : e.uid = userId
        /\ \A default \in {DEFAULT_PROJECT, DEFAULT_TRANSACTION, DEFAULT_TODO,
                           DEFAULT_FOLLOWUP, DEFAULT_CATEGORY} :
              \A data \in OwnedData :
                 OptimisticItem(default, data, <<>>).uid = userId

\* A created entity and a loaded one stand side by side in a collection,
\* both owned by the active user.
C17_Witness ==
    /\ userId = TheUser
    /\ \E n \in Ops :
          /\ hist[n].op \in SaveOps /\ hist[n].out = "ok"
          /\ hist[n].arg.created_at = n
          /\ Confirmed(n) \in Entities(colls)
          /\ Confirmed(n).uid = TheUser
          /\ \E e \in Range(hist[n].pre[Own(hist[n].op)]) :
                e \in Entities(colls) /\ e.created_at = 0 /\ e.uid = TheUser
\* ------------------------------------- the debounced milestone tracker
\* localMilestones.map((m, i) => i === index ? {...m, completed: !m.completed} : m)
Flip(m, index) == IF index \in m THEN m \ {index} ELSE m \cup {index}

\* handleToggle(index) of ProjectMilestonesTracker: the box is flipped in
\* localMilestones and debouncedUpdate(project.id, newMilestones) clears
\* the timeout, if there is one, and sets a new one.  The callback the new
\* timeout will call is the one of this render, with this render's
\* `projects` in the closure of updateProjectMilestones and batchUpdate.
\* Nothing is sent.
handleToggle(index) ==
    /\ tracker.mounted
    /\ Len(IF tracker.timer = <<>> THEN <<>> ELSE tracker.burst) < MaxEdits
    /\ UNCHANGED <<userId, isLoading, colls, selectedProjectId, lastSelected, seeded,
                   toast, pending, nextId, nops, hist, load>>
    /\ LET project == Find(projects, selectedProjectId)[1]
           newMilestones == Flip(tracker.localMilestones, index)
           toggle == [index |-> index, completed |-> index \in newMilestones]
       IN renderTrackerFrom(
            [tracker EXCEPT
               !.localMilestones = newMilestones,
               !.timer = <<[projectId |-> project.id, milestones |-> newMilestones,
                            projects |-> projects]>>,
               !.burst = IF tracker.timer # <<>> THEN Append(tracker.burst, toggle)
                         ELSE <<toggle>>])

\* The timeout of useDebouncedCallback expires, the delay after the last
\* toggle: callback(...args), which is updateProjectMilestones(projectId,
\* milestones) and through it batchUpdate, both of the render that set the
\* timeout: project and originalProject are found in the `projects` of
\* that render, setProjects maps over the current ones.
debouncedUpdateFires ==
    /\ tracker.timer # <<>>
    /\ nops < MaxOps
    /\ nops' = nops + 1
    /\ LET args == tracker.timer[1]
           fired == [tracker EXCEPT !.timer = <<>>,
                                    !.sent.milestones = <<args.milestones>>]
           project == Find(args.projects, args.projectId)
       IN IF project = <<>>
          THEN /\ hist' = Invoked("updateProjectMilestones",
                                  [id |-> args.projectId], "returned")
               /\ UNCHANGED <<userId, load, isLoading, colls, selectedProjectId,
                              lastSelected, seeded, toast, pending, nextId>>
               /\ renderTrackerFrom(fired)
          ELSE LET originalProject == project[1]
                   updatedProject ==
                       Spread(originalProject,
                              [milestones |-> args.milestones,
                               paymentMilestones |-> project[1].paymentMilestones,
                               updated_at |-> now])
               IN /\ projects' = MapReplace(projects, args.projectId, updatedProject)
                  /\ pending' = pending \cup
                        {[n |-> nops + 1, op |-> "batchUpdate",
                          projectId |-> args.projectId,
                          updatedProject |-> updatedProject,
                          originalProject |-> originalProject]}
                  /\ hist' = Invoked("batchUpdate", updatedProject, "pending")
                  /\ UNCHANGED <<userId, load, isLoading, transactions, todos,
                                 followUps, categories, selectedProjectId,
                                 lastSelected, seeded, toast, nextId>>
                  /\ renderTrackerFrom(fired)

\* The boxes a user can reach.
Boxes == 1..MaxBoxes

\* The provider with the milestone tracker of the selected project as its
\* caller: toggles, the timeout, the answers to the batch updates, and
\* clicks on the other project of the sidebar.
NextTracker ==
    \/ mount
    \/ \E data \in ServerData : fetchDataOk(data)
    \/ fetchDataFail
    \/ seedCategoriesOk
    \/ seedCategoriesFail
    \/ \E id \in Ids(projects) \ {selectedProjectId} : selectProject(id)
    \/ \E index \in Boxes : handleToggle(index)
    \/ debouncedUpdateFires
    \/ \E c \in pending : batchUpdateOk(c)
    \/ \E c \in pending : batchUpdateFail(c)

SpecTracker == Init /\ [][NextTracker]_vars

\* The milestone sequence m has every box of the burst as the last toggle
\* of that box in the burst left it.
Reflects(m, burst) ==
    \A k \in 1..Len(burst) :
        (\A l \in (k + 1)..Len(burst) : burst[l].index # burst[k].index)
        => ((burst[k].index \in m) <=> burst[k].completed)

\* C18: the toggles made while the debounce timer is armed are one burst:
\* a toggle issues no remote call; a burst stays with one project; and the
\* timer goes only by issuing exactly one batch-update call, for the
\* project of the burst, whose milestone sequence reflects every toggle
\* of the burst, the last edit's sequence.
C18_OneCallPerBurst ==
    [][/\ (tracker'.timer # <<>> /\ tracker'.timer # tracker.timer)
             => pending' = pending
       /\ (tracker.timer # <<>> /\ tracker'.timer # <<>>)
             => tracker'.timer[1].projectId = tracker.timer[1].projectId
       /\ (tracker.timer # <<>> /\ tracker'.timer = <<>>)
             => \E c \in pending' :
                   /\ c \notin pending /\ pending' = pending \cup {c}
                   /\ c.op = "batchUpdate"
                   /\ c.projectId = tracker.timer[1].projectId
                   /\ Reflects(c.updatedProject.milestones, tracker.burst)]_vars
\* The id of the first project in collection order other than id, or none.
FirstRemaining(s, id) ==
    IF \A i \in 1..Len(s) : s[i].id = id THEN NoId
    ELSE s[CHOOSE i \in 1..Len(s) :
             s[i].id # id /\ \A j \in 1..(i - 1) : s[j].id = id].id

NextCategories ==
    \/ mount
    \/ \E data \in ServerData : fetchDataOk(data)
    \/ fetchDataFail
    \/ seedCategoriesOk
    \/ seedCategoriesFail
    \/ \E existing \in Existing(categories) : \E data \in Data :
          saveCategory(data, existing)
    \/ \E id \in Ids(categories) : deleteCategory(id)
    \/ \E c \in pending : saveCategoryOk(c)
    \/ \E c \in pending : saveCategoryFail(c)
    \/ \E c \in pending : deleteCategoryOk(c)
    \/ \E c \in pending : deleteCategoryFail(c)

\* The promise of a remote call that is awaited settles: the continuation
\* or the catch block of a suspended save or delete runs.
Resolves ==
    \E c \in pending :
        \/ saveCategoryOk(c) \/ saveCategoryFail(c)
        \/ deleteCategoryOk(c) \/ deleteCategoryFail(c)

\* Every remote call is answered in the end.
SpecLive == Init /\ [][NextCategories]_vars /\ WF_vars(Resolves)

\* C20: a save or delete that goes on is pending from the step of its
\* invocation, with its one call in flight; a pending operation stays
\* pending, with that call, until the step in which the call resolves: a
\* success confirms it (a save puts the server's entity in the slot, a
\* delete leaves the entity absent), a failure rolls its collection back to
\* the state before the invocation and raises an error; a resolved
\* operation stays resolved; an operation is pending exactly while its call
\* is in flight; and, the remote calls being answered, every pending
\* operation is eventually confirmed or rolled back.
C20_PendingLifecycle ==
    /\ [][/\ \A n \in 1..Len(hist') :
               (InvokedNow(n) /\ hist'[n].op \in SaveOps \cup DeleteOps
                  /\ hist'[n].out # "returned")
               => /\ hist'[n].out = "pending"
                  /\ \E c \in pending' :
                        c.n = n /\ c \notin pending /\ pending' = pending \cup {c}
          /\ \A n \in Ops :
               /\ hist[n].out \in {"ok", "failed", "returned"}
                     => hist'[n].out = hist[n].out
               /\ (hist[n].out = "pending" /\ hist[n].op \in SaveOps \cup DeleteOps)
                     => LET k == Own(hist[n].op)
                        IN \/ /\ hist'[n].out = "pending"
                              /\ CallOf(n) \in pending'
                           \/ /\ hist'[n].out = "ok"
                              /\ pending' = pending \ {CallOf(n)}
                              /\ colls'[k] = IF hist[n].op \in SaveOps
                                             THEN InSlot(colls[k], Confirmed(n))
                                             ELSE colls[k]
                           \/ /\ hist'[n].out = "failed"
                              /\ pending' = pending \ {CallOf(n)}
                              /\ colls'[k] = hist[n].pre[k]
                              /\ ErrorRaised]_vars
    /\ [](\A n \in Ops : hist[n].out = "pending" <=> \E c \in pending : c.n = n)
    /\ \A n \in 1..MaxOps :
          (n \in Ops /\ hist[n].out = "pending")
             ~> (n \in Ops /\ hist[n].out \in {"ok", "failed"})

\* A save of a category has been confirmed and a delete has been rolled
\* back, and nothing is pending any more.
C20_Witness ==
    /\ pending = {}
    /\ \E n \in Ops : \E m \in Ops :
          /\ hist[n].op = "saveCategory" /\ hist[n].out = "ok"
          /\ Confirmed(n) \in Range(categories)
          /\ hist[m].op = "deleteCategory" /\ hist[m].out = "failed"
          /\ hist[m].arg.id \in {e.id : e \in Range(hist[m].pre[Own(hist[m].op)])}
\* ------------------------------------------------ the two trackers together
\* handleUpdate(index, 'status', value) of PaymentMilestonesTracker: the
\* payment's status is changed in its localMilestones and
\* debouncedUpdate(project.id, newMilestones) sets its timeout anew, with
\* the callback, and so the `projects`, of this render.
handleUpdate(index) ==
    /\ tracker.mounted
    /\ (IF tracker.paymentTimer = <<>> THEN 0 ELSE tracker.paymentEdits) < MaxEdits
    /\ UNCHANGED <<userId, isLoading, colls, selectedProjectId, lastSelected, seeded,
                   toast, pending, nextId, nops, hist, load>>
    /\ LET project == Find(projects, selectedProjectId)[1]
           newMilestones == Flip(tracker.localPayments, index)
       IN renderTrackerFrom(
            [tracker EXCEPT
               !.localPayments = newMilestones,
               !.paymentTimer = <<[projectId |-> project.id,
                                   milestones |-> newMilestones,
                                   projects |-> projects]>>,
               !.paymentEdits = IF tracker.paymentTimer # <<>> THEN @ + 1 ELSE 1])

\* The timeout of the payment tracker expires: updatePaymentMilestones(
\* projectId, milestones) and through it batchUpdate, both of the render
\* that set the timeout; the milestones sent along are those of the
\* project as that render's `projects` has it.
debouncedPaymentUpdateFires ==
    /\ tracker.paymentTimer # <<>>
    /\ nops < MaxOps
    /\ nops' = nops + 1
    /\ LET args == tracker.paymentTimer[1]
           fired == [tracker EXCEPT !.paymentTimer = <<>>,
                                    !.sent.payments = <<args.milestones>>]
           project == Find(args.projects, args.projectId)
       IN IF project = <<>>
          THEN /\ hist' = Invoked("updatePaymentMilestones",
                                  [id |-> args.projectId], "returned")
               /\ UNCHANGED <<userId, load, isLoading, colls, selectedProjectId,
                              lastSelected, seeded, toast, pending, nextId>>
               /\ renderTrackerFrom(fired)
          ELSE LET originalProject == project[1]
                   updatedProject ==
                       Spread(originalProject,
                              [milestones |-> project[1].milestones,
                               paymentMilestones |-> args.milestones,
                               updated_at |-> now])
               IN /\ projects' = MapReplace(projects, args.projectId, updatedProject)
                  /\ pending' = pending \cup
                        {[n |-> nops + 1, op |-> "batchUpdate",
                          projectId |-> args.projectId,
                          updatedProject |-> updatedProject,
                          originalProject |-> originalProject]}
                  /\ hist' = Invoked("batchUpdate", updatedProject, "pending")
                  /\ UNCHANGED <<userId, load, isLoading, transactions, todos,
                                 followUps, categories, selectedProjectId,
                                 lastSelected, seeded, toast, nextId>>
                  /\ renderTrackerFrom(fired)

\* The provider with the two trackers of the selected project as its
\* callers: edits in either, the two timeouts in any order, and the
\* answers to the batch updates.
NextTrackers ==
    \/ mount
    \/ \E data \in ServerData : fetchDataOk(data)
    \/ fetchDataFail
    \/ seedCategoriesOk
    \/ seedCategoriesFail
    \/ \E index \in Boxes : handleToggle(index)
    \/ \E index \in Boxes : handleUpdate(index)
    \/ debouncedUpdateFires
    \/ debouncedPaymentUpdateFires
    \/ \E c \in pending : batchUpdateOk(c)
    \/ \E c \in pending : batchUpdateFail(c)

SpecTrackers == Init /\ [][NextTrackers]_vars

\* C21: the call a milestone edit issues carries the payment milestones
\* the project has at that time, the call a payment edit issues carries
\* the milestones the project has at that time; and once a milestone edit
\* and a payment edit on the selected project have both been sent and
\* every remote call has succeeded, the project holds both edits.
C21_BothEditsKept ==
    /\ [][\A c \in pending' \ pending :
            c.op = "batchUpdate" =>
               LET current == ProjectIn(colls, c.projectId)
               IN /\ tracker.timer # tracker'.timer
                       => c.updatedProject.paymentMilestones
                             = current.paymentMilestones
                  /\ tracker.paymentTimer # tracker'.paymentTimer
                       => c.updatedProject.milestones = current.milestones]_vars
    /\ []((/\ tracker.mounted
           /\ tracker.timer = <<>> /\ tracker.paymentTimer = <<>>
           /\ tracker.sent.milestones # <<>> /\ tracker.sent.payments # <<>>
           /\ pending = {}
           /\ \A n \in Ops : hist[n].op = "batchUpdate" /\ hist[n].out = "ok")
          => LET project == ProjectIn(colls, selectedProjectId)
             IN /\ project.milestones = tracker.sent.milestones[1]
                /\ project.paymentMilestones = tracker.sent.payments[1])
\* The entry of the entity of that id in the collection s: <<>> if absent.
EntryOf(s, id) == Find(s, id)

\* C22: when the remote call of a save or delete of entity X fails, the
\* rollback leaves alone the entry of every other entity Y of the same
\* kind that another operation created, changed or deleted while X's call
\* was in flight: Y's entry after the rollback is Y's entry before it.
C22_RollbackSparesOthers ==
    [][\A a \in Ops : \A b \in Ops :
         (/\ Fails(a) /\ hist[a].op \in SaveOps \cup DeleteOps
          /\ a < b /\ hist[b].op \in SaveOps \cup DeleteOps
          /\ hist[b].out # "returned"
          /\ Own(hist[b].op) = Own(hist[a].op)
          /\ hist[b].arg.id # hist[a].arg.id)
         => LET k == Own(hist[a].op)
            IN EntryOf(colls'[k], hist[b].arg.id)
                  = EntryOf(colls[k], hist[b].arg.id)]_vars
\* C23: once the remote call of a delete has succeeded, the deleted entity
\* is in no state in its collection again, and after the delete of a
\* project no transaction, to-do or follow-up of that project is in the
\* collections again, whatever the other operations in flight do.
C23_DeletedStaysDeleted ==
    \A n \in Ops :
        (hist[n].op \in DeleteOps /\ hist[n].out = "ok")
        => /\ Find(colls[Own(hist[n].op)], hist[n].arg.id) = <<>>
           /\ hist[n].op = "deleteProject"
                 => \A e \in Range(transactions) \cup Range(todos) \cup Range(followUps) :
                       e.project_id # hist[n].arg.id
\* Every operation of the history is a save or a delete whose remote call
\* has failed, each but the first was invoked while an earlier one was in
\* flight, and nothing is in flight any more.
AllFailedOverlapping ==
    /\ Len(hist) > 1
    /\ pending = {}
    /\ \A n \in Ops :
          /\ hist[n].op \in SaveOps \cup DeleteOps
          /\ hist[n].out = "failed"
          /\ n > 1 => hist[n].inflight # {}

\* C24: when several saves and deletes overlap and the remote call of
\* every one of them fails, then after the last rollback, in whatever
\* order the failures arrived, every collection is what it was before the
\* first of them was invoked.
C24_AllFailedRestoresAll ==
    AllFailedOverlapping => colls = hist[1].pre
\* C25: in every state after the initial load selectedProjectId is none
\* or the id of a project that is in the projects collection.
C25_SelectionExists ==
    load.fetch = "ok" =>
        \/ selectedProjectId = NoId
        \/ \E i \in 1..Len(projects) : projects[i].id = selectedProjectId
\* No operation after n has moved the selection.
SelectionLeftAlone(n) ==
    \A m \in Ops :
        m > n => hist[m].op \notin {"setSelectedProjectId", "deleteProject"}

\* C26: when the remote call of the delete of the project that was
\* selected fails, the rollback puts the projects, transactions, to-dos
\* and follow-ups back as they were before the delete and leaves
\* selectedProjectId and the persisted last-selected id as they are: with
\* no selection made since, they are the fallback chosen at the
\* invocation, not the restored project.
C26_RollbackKeepsFallback ==
    [][\A n \in Ops :
         (Fails(n) /\ hist[n].op = "deleteProject" /\ hist[n].sel = hist[n].arg.id)
         => LET id == hist[n].arg.id
                fallback == FirstRemaining(hist[n].pre[1], id)
            IN /\ <<projects, transactions, todos, followUps>>'
                    = <<hist[n].pre[1], hist[n].pre[2], hist[n].pre[3], hist[n].pre[4]>>
               /\ selectedProjectId' = selectedProjectId
               /\ lastSelected' = lastSelected
               /\ SelectionLeftAlone(n)
                    => /\ selectedProjectId' = fallback
                       /\ lastSelected' = fallback
                       /\ selectedProjectId' # id]_vars

\* The delete of the selected project has failed: the project is back in
\* the collection and the selection is on the other project.
C26_Witness ==
    \E n \in Ops :
        /\ hist[n].op = "deleteProject" /\ hist[n].out = "failed"
        /\ hist[n].sel = hist[n].arg.id
        /\ SelectionLeftAlone(n)
        /\ Find(projects, hist[n].arg.id) # <<>>
        /\ selectedProjectId # NoId
        /\ selectedProjectId = FirstRemaining(hist[n].pre[1], hist[n].arg.id)
        /\ lastSelected = selectedProjectId
\* The operations that work on one collection only.
OneKindOps == (SaveOps \cup DeleteOps \cup {"batchUpdate"}) \ {"deleteProject"}

\* C27: a save or delete of a transaction, to-do, follow-up or category
\* changes the collection of its kind only, a save of a project or a
\* milestone batch update the projects only: the step of the optimistic
\* apply, the step of the reconciliation and the step of the rollback each
\* leave the selection, the persisted selection and the other four
\* collections as they are.
C27_OnlyOwnCollection ==
    [][\A n \in 1..Len(hist') :
         (/\ hist'[n].op \in OneKindOps
          /\ Starts(n) \/ Succeeds(n) \/ Fails(n))
         => /\ \A k \in 1..Len(colls) :
                  k # Own(hist'[n].op) => colls'[k] = colls[k]
            /\ selectedProjectId' = selectedProjectId
            /\ lastSelected' = lastSelected]_vars

\* A transaction was saved and confirmed and then a project save failed:
\* the transactions differ from what the first operation found, and each
\* operation left the other collections and the selection alone.
C27_Witness ==
    /\ Len(hist) = 2
    /\ hist[1].op = "saveTransaction" /\ hist[1].out = "ok"
    /\ hist[2].op = "saveProject" /\ hist[2].out = "failed"
    /\ transactions # hist[1].pre[2]
    /\ \A k \in {1, 3, 4, 5} : colls[k] = hist[1].pre[k]
    /\ selectedProjectId = hist[1].sel /\ selectedProjectId # NoId
\* C28: in every state no collection has two entries with the same id
\* (the server answering with the id it was sent).
C28_UniqueIds ==
    \A k \in 1..Len(colls) :
        \A i \in 1..Len(colls[k]) : \A j \in 1..Len(colls[k]) :
            colls[k][i].id = colls[k][j].id => i = j

\* A created entity was confirmed in place and an update of a loaded
\* entity of the same collection was rolled back: the collection has the
\* loaded and the created entity, once each.
C28_Witness ==
    \E n \in Ops : \E m \in Ops :
        /\ hist[n].op \in SaveOps /\ hist[n].out = "ok"
        /\ hist[n].arg.created_at = n
        /\ hist[m].op = hist[n].op /\ hist[m].out = "failed"
        /\ hist[m].arg.id # hist[n].arg.id
        /\ LET s == colls[Own(hist[n].op)]
           IN /\ Cardinality({i \in 1..Len(s) : s[i].id = hist[n].arg.id}) = 1
              /\ Cardinality({i \in 1..Len(s) : s[i].id = hist[m].arg.id}) = 1
\* C29: the rollback of a failed batch update puts the project record
\* captured at the invocation in the slot of the named project and leaves
\* every other slot of the projects collection as it is at that time,
\* with whatever was done to the other projects while the call was in
\* flight.
C29_RollbackOfOneProject ==
    [][\A n \in Ops :
         (Fails(n) /\ hist[n].op = "batchUpdate")
         => /\ Len(projects') = Len(projects)
            /\ \A i \in 1..Len(projects) :
                  projects'[i] = IF projects[i].id = hist[n].arg.id
                                 THEN ProjectIn(hist[n].pre, hist[n].arg.id)
                                 ELSE projects[i]]_vars

\* A batch update has failed after another project was created while its
\* call was in flight: the named project is the captured record and the
\* other project is still in the collection.
C29_Witness ==
    \E n \in Ops : \E m \in Ops :
        /\ hist[n].op = "batchUpdate" /\ hist[n].out = "failed"
        /\ hist[m].op = "saveProject" /\ hist[m].out \in {"pending", "ok"}
        /\ n \in hist[m].inflight
        /\ hist[m].arg.id # hist[n].arg.id
        /\ Find(hist[n].pre[1], hist[m].arg.id) = <<>>
        /\ Find(projects, hist[m].arg.id) # <<>>
        /\ Find(projects, hist[n].arg.id) = <<ProjectIn(hist[n].pre, hist[n].arg.id)>>
\* ------------------------------------- ProjectDetail: tracker and delete
\* The provider with ProjectDetail of the selected project as its caller:
\* the milestone tracker with its timeout, and the delete of the project
\* (onDelete, confirmed).
NextDetail ==
    \/ mount
    \/ \E data \in ServerData : fetchDataOk(data)
    \/ fetchDataFail
    \/ seedCategoriesOk
    \/ seedCategoriesFail
    \/ \E index \in Boxes : handleToggle(index)
    \/ debouncedUpdateFires
    \/ \E id \in Deletable("projects") : deleteProject(id)
    \/ \E c \in pending : deleteProjectOk(c)
    \/ \E c \in pending : deleteProjectFail(c)
    \/ \E c \in pending : batchUpdateOk(c)
    \/ \E c \in pending : batchUpdateFail(c)

SpecDetail == Init /\ [][NextDetail]_vars

\* The milestone operations of the store.
MilestoneOps == {"batchUpdate", "updateProjectMilestones", "updatePaymentMilestones"}

\* C30: a milestone operation invoked for a projectId that no project of
\* the projects collection has changes no state of the store, issues no
\* remote call and raises no notification.
C30_UnknownProjectNoEffect ==
    [][\A n \in 1..Len(hist') :
         (/\ InvokedNow(n) /\ hist'[n].op \in MilestoneOps
          /\ Find(projects, hist'[n].arg.id) = <<>>)
         => /\ colls' = colls
            /\ pending' = pending
            /\ toast' = toast
            /\ selectedProjectId' = selectedProjectId]_vars

====
